---- MODULE Spec2Model ----
(***************************************************************************)
(* findx: event bus, extraction pool, mirror builder, metadata service and *)
(* retention, modelled as state machines over the catalog tables, the bus  *)
(* channels and the mirror directory.                                      *)
(***************************************************************************)
EXTENDS Integers, Sequences, FiniteSets, TLC

(***************************************************************************)
(* Bounds of the model                                                     *)
(***************************************************************************)
\* capacity of every subscriber queue of topic source.fs (cfg.bus.bounds)
source_fs == 1
\* capacity of every subscriber queue of topic mirror.text (cfg.bus.bounds)
mirror_text == 1
\* publish calls made on the bus
MaxPublish == 2
\* days the clock may advance
MaxDays == 2
\* retention.events_days
events_days == 1
\* retention.jobs_failed_days
jobs_failed_days == 1
\* retention.jobs_keep_per_file
jobs_keep_per_file == 1
\* cfg.extract.jobs_bound: capacity of the job queue
jobs_bound == 1
\* ExtractionRequested events published for the extraction pool
MaxRequests == 2
\* ExtractionRequested events published in a burst, as after a scan of a tree
MaxBurst == 4
MaxChunkPages == 2
\* times the content of the source file is rewritten
MaxWrites == 1
\* calls of mirror::handle_extraction
MaxHandles == 2
\* creations, renames and deletions made in the source tree
MaxFsOps == 3
\* calls of fs::cold_scan
MaxScans == 3
\* calls of Lockfile::acquire
MaxAcquires == 4
\* length of the hit lists given to rrf, and the largest top_k
MaxHits == 2
MaxTopK == 3
\* length of the chunk texts given to make_chunk_id
MaxText == 3
MaxPageText == 4
MaxNotify == 3
\* cfg.retention.files_tombstone_days
files_tombstone_days == 1
\* calls of reconcile::run
MaxRuns == 2
\* calls of handle_extraction and changes of the source tree made before the
\* reconciler runs
MaxRecHandles == 1
MaxRecFsOps == 2

(***************************************************************************)
(* Program constants                                                       *)
(***************************************************************************)
DaySecs == 86400
TOKENS_PER_CHUNK == 200

Topics == {"source.fs", "mirror.text"}
\* the threads that use the bus: the metadata service, the mirror builder and
\* an extraction worker
Threads == {"metadata", "mirror", "worker"}
\* who calls subscribe_source / subscribe_mirror
Subscribers(topic) ==
    IF topic = "source.fs" THEN {"metadata", "mirror"} ELSE {}
\* who calls publish_source / publish_mirror
Publishers(topic) ==
    IF topic = "source.fs" THEN {"metadata", "worker"} ELSE {"mirror"}
NoThread == "none"
NoEnv == [topic |-> "source.fs", ticket |-> 0, ts |-> 0, idx |-> 1, by |-> NoThread]

\* file identities: f1 has a files row, f0 has none
Uids == {"f0", "f1"}
\* file contents, named by their xxh3 digest (hash_file)
Contents == {"h1", "h2", "h3"}
\* cfg.roots, and the paths of the source tree as sequences of components
roots == <<(<<"r">>)>>
PathA == <<"r", "a">>
PathB == <<"r", "b">>
Paths == {PathA, PathB}
NoFile == [uid |-> "none", content |-> "", sig |-> 0]
NoHash == "null"
FileRow(id, path, uid, status) ==
    [id |-> id, realpath |-> path, inode_hint |-> uid, status |-> status,
     hash |-> NoHash, fast_sig |-> 0, updated_ts |-> 0]

DiskFile(uid, content) == [uid |-> uid, content |-> content, sig |-> 0]

\* cfg.extract.pool_size workers
Workers == {"w1", "w2"}
NoJob == [uid |-> "f0", path |-> PathA, hash |-> NoHash]

VARIABLES
    files,      \* the files table
    disk,       \* the source tree: per path the file there, or NoFile
    reqQ,       \* run_pool's queue of source.fs (rx_events)
    dpc,        \* run_pool's loop: "recv", or the file_uid it is sending
    jobq,       \* the bounded job queue (job_tx / job_rx)
    wpc,        \* per worker: its place in worker_loop
    wjob,       \* per worker: file_uid, path and content_hash of its job
    extract_jobs, \* the extract_jobs table
    published,  \* terminal events published, per (file_uid, content_hash, kind)
    requested,  \* per file_uid: ExtractionRequested events published
    skips,      \* per file_uid: jobs skipped because the row was present
    outcome,    \* per file_uid: how the last extraction of it ended
    writes,     \* times the content of a source file was rewritten
    mirror_fs,  \* the mirror tree: per directory its four files
    mirror_docs,   \* the mirror_docs table
    mirror_chunks, \* the mirror_chunks table
    mpc,        \* the mirror builder's place in handle_extraction
    mjob,       \* the event being handled and the loop state of write_chunks
    mres,       \* what the last handle_extraction call returned
    mlog,       \* the mirror events published by the current call, in order
    interrupted,\* (file_uid, content_hash) pairs whose chunk writing was cut short
    handles,    \* calls of handle_extraction made
    fs_state,   \* FsState.files: per file_uid what the last scan saw, or NoInfo
    metaQ,      \* the metadata service's queue of source.fs
    meta_pc,    \* the metadata service's place in run
    meta_delta, \* the SyncDelta it is handling, shrinking as entries are done
    meta_orig,  \* the SyncDelta it received last (env.data), as received
    meta_cur,   \* the entry between its SQL statement and its publish
    ops_log,    \* the ops_log table, as the operations appended in order
    lastRename, \* the last rename of a file the scanner knew, and how far it got
    fsops,      \* creations, renames and deletions made
    scans,      \* calls of cold_scan made
    stop,       \* the stop flag (AtomicBool) given to the service loops
    now,        \* wall clock, unix seconds
    subs,       \* Topic.subs: per topic the Vec of live senders (by receiver owner)
    queue,      \* per topic and receiver: the bounded channel's content
    rx,         \* per topic and thread: "none", "live" (Receiver held) or "dropped"
    topicLock,  \* per topic: the thread holding the subs mutex, or NoThread
    pc,         \* per thread: "idle", "send" (inside Topic::publish), "log"
    cur,        \* per thread: the envelope being published and the retain index
    events,     \* the events audit table
    calls,      \* number of publish_source / publish_mirror calls made
    persistErrs,\* publish calls whose audit insert failed
    pruned,     \* audit rows deleted by retention
    received,   \* per topic and receiver: envelopes received, in order
    fullAtCall, \* per thread: the receivers whose queue was full when it called publish
    lock_file,  \* .findx/state/index.lock: absent, or its content
    lpc,        \* per process: "idle", "opened" (inside acquire) or "held"
    lres,       \* per process: what its last Lockfile::acquire returned
    stale,      \* an acquire failed after it had created the lock file
    acquires,   \* calls of Lockfile::acquire made
    drops,      \* Lockfile values dropped
    rrf_in,     \* hybrid_chunks: the two hit lists and top_k passed to rrf
    rrf_out,    \* what rrf returned for rrf_in, once it has
    cid_in,     \* two calls of make_chunk_id that differ in the text only
    cid_out,    \* the two chunk ids, once computed
    sp_in, \* extract_pages: the text read from the file
    sp_out,\* the pages split_pages returned for sp_in
    redelivered,\* seq of the SyncDelta delivered a second time (0: none)
    watch_pc, \* watch: "wait" (in recv_timeout), "scan" (in cold_scan) or "returned"
    chan, \* notifications sent by the watcher callback and not yet received
    last_event, \* time since last_event was set, in tenths of a second, or NoEvent
    waited, \* tenths of a second the current recv_timeout has waited
    since_arrival, \* time since the last notification arrived
    burst, \* notifications arrived since the last cold scan started
    covered, \* notifications that had arrived when the last cold scan started, since the one before
    notified,\* notifications sent so far
    rpc, \* reconcile::run: "idle", "missing" (first pass) or "orphans" (second pass)
    rres, \* what the last reconcile::run returned
    r_rows, \* the active files rows the first pass has still to visit
    r_docs, \* the mirror_docs rows the second pass has still to visit
    r_req, \* per file_uid: ExtractionRequested events the current run published
    r_del, \* per file_uid: MirrorDocDeleted events the current run published
    r_seen, \* the mirror_docs rows the second pass has visited
    recs, \* calls of reconcile::run made
    wc_pages, \* write_chunks_impl: the pages it was called with
    wc_p, \* the page the for loop is at
    wc_idx, \* idx, the character the while loop is at
    wc_order, \* order, the number of chunks written
    wc_out, \* the chunks written, in writing order
    wc_pc,\* where write_chunks_impl is
    cmd, \* per process: the command main was started with
    main_pc, \* per process: where main is
    index_exists, \* cfg.db and cfg.tantivy_index exist
    pending \* per process: SyncDeltas its scan published that its metadata service has still to handle

busVars == <<subs, queue, rx, topicLock, pc, cur, events, calls, persistErrs,
             pruned, received, fullAtCall>>

\* the bus state a publish_source call from another subsystem leaves alone
busRest == <<subs, queue, rx, topicLock, pc, cur, pruned, received, fullAtCall>>

extractVars == <<files, disk, reqQ, dpc, jobq, wpc, wjob, extract_jobs, published,
                 requested, skips, outcome, writes>>

mirrorVars == <<mirror_fs, mirror_docs, mirror_chunks, mpc, mjob, mres, mlog,
                interrupted, handles>>

scanVars == <<fs_state, metaQ, meta_pc, meta_delta, meta_orig, meta_cur, ops_log, lastRename,
              fsops, scans, stop>>

lockVars == <<lock_file, lpc, lres, stale, acquires, drops>>

\* the state of the parts that run apart from the services
searchVars == <<rrf_in, rrf_out>>

chunkIdVars == <<cid_in, cid_out>>

pageVars == <<sp_in, sp_out>>

idemVars == <<redelivered>>

watchVars == <<watch_pc, chan, last_event, waited, since_arrival, burst, covered, notified>>

recVars == <<rpc, rres, r_rows, r_docs, r_req, r_del, r_seen, recs>>

writeVars == <<wc_pages, wc_p, wc_idx, wc_order, wc_out, wc_pc>>

cmdVars == <<cmd, main_pc, index_exists, pending>>

libVars == <<lockVars, searchVars, chunkIdVars, pageVars, idemVars, watchVars, recVars, writeVars, cmdVars>>

vars == <<now, busVars, extractVars, mirrorVars, libVars, scanVars>>

(***************************************************************************)
(* Helpers                                                                 *)
(***************************************************************************)
Range(s) == {s[i] : i \in DOMAIN s}

RemoveAt(s, i) == [j \in 1..(Len(s) - 1) |-> IF j < i THEN s[j] ELSE s[j + 1]]

MaxOf(S) == CHOOSE x \in S : \A y \in S : y <= x

\* positions of x in sequence s
PosOf(s, x) == CHOOSE i \in DOMAIN s : s[i] = x

(***************************************************************************)
(* Event bus (src/bus.rs)                                                  *)
(***************************************************************************)
\* EventBus::new: the capacity Topic::subscribe gives each queue
bound(topic) == IF topic = "source.fs" THEN source_fs ELSE mirror_text

\* the mutant: publish and subscribe do not take the subs mutex
topic_never_locked(topic) == FALSE

\* the subs mutex of a topic is held by some thread
topic_locked(topic) == topicLock[topic] # NoThread

\* crossbeam Sender::send on a bounded channel: fails when the receiver is
\* gone, succeeds when there is room, and otherwise blocks
send_result(topic, s) ==
    IF rx[topic][s] # "live" THEN "disconnected"
    ELSE IF Len(queue[topic][s]) < bound(topic) THEN "ok"
    ELSE "blocked"

\* SQLite rowid of INTEGER PRIMARY KEY: one more than the largest id present
next_rowid(rows) == IF rows = {} THEN 1 ELSE MaxOf({r.id : r \in rows}) + 1

\* the mutant: the row takes the id of the newest row and replaces it
insert_event_replacing(rows, env) ==
    LET id == IF rows = {} THEN 1 ELSE MaxOf({r.id : r \in rows})
    IN  {r \in rows : r.id # id} \cup
        {[id |-> id, ts |-> env.ts, topic |-> env.topic, ticket |-> env.ticket,
          by |-> env.by]}

\* log_event: INSERT INTO events (ts, topic, type, idempotency_key, payload)
insert_event(rows, env) ==
    rows \cup {[id |-> next_rowid(rows), ts |-> env.ts, topic |-> env.topic,
                ticket |-> env.ticket, by |-> env.by]}

\* Topic::subscribe: a fresh bounded channel, its sender pushed on subs
subscribe(t, topic) ==
    /\ pc[t] = "idle"
    /\ ~topic_locked(topic)
    /\ rx[topic][t] = "none"
    /\ subs' = [subs EXCEPT ![topic] = Append(@, t)]
    /\ rx' = [rx EXCEPT ![topic][t] = "live"]
    /\ queue' = [queue EXCEPT ![topic][t] = <<>>]
    /\ received' = [received EXCEPT ![topic][t] = <<>>]
    /\ UNCHANGED <<scanVars, mirrorVars, libVars, extractVars, now, topicLock, pc, cur, events, calls, persistErrs, pruned,
                   fullAtCall>>

\* the subscriber's loop ends and its Receiver is dropped
drop_receiver(t, topic) ==
    /\ pc[t] = "idle"
    /\ rx[topic][t] = "live"
    /\ rx' = [rx EXCEPT ![topic][t] = "dropped"]
    /\ queue' = [queue EXCEPT ![topic][t] = <<>>]
    /\ UNCHANGED <<scanVars, mirrorVars, libVars, extractVars, now, subs, topicLock, pc, cur, events, calls, persistErrs, pruned,
                   received, fullAtCall>>

\* Receiver::recv_timeout returning Ok(env)
recv(t, topic) ==
    /\ pc[t] = "idle"
    /\ rx[topic][t] = "live"
    /\ queue[topic][t] # <<>>
    /\ received' = [received EXCEPT ![topic][t] = Append(@, Head(queue[topic][t]))]
    /\ queue' = [queue EXCEPT ![topic][t] = Tail(@)]
    /\ UNCHANGED <<scanVars, mirrorVars, libVars, extractVars, now, subs, rx, topicLock, pc, cur, events, calls, persistErrs,
                   pruned, fullAtCall>>

\* publish_source / publish_mirror: Envelope::new, then Topic::publish takes
\* the subs mutex
publish_begin(t, topic) ==
    /\ pc[t] = "idle"
    /\ calls < MaxPublish
    /\ ~topic_locked(topic)
    /\ calls' = calls + 1
    /\ topicLock' = [topicLock EXCEPT ![topic] = t]
    /\ pc' = [pc EXCEPT ![t] = "send"]
    /\ cur' = [cur EXCEPT ![t] = [topic |-> topic, ticket |-> calls + 1, ts |-> now,
                                  idx |-> 1, by |-> t]]
    /\ fullAtCall' = [fullAtCall EXCEPT ![t] =
            {s \in Range(subs[topic]) :
                rx[topic][s] = "live" /\ Len(queue[topic][s]) = bound(topic)}]
    /\ UNCHANGED <<scanVars, mirrorVars, libVars, extractVars, now, subs, queue, rx, events, persistErrs, pruned, received>>

\* one step of subs.retain(|tx| tx.send(env.clone()).is_ok())
publish_send(t) ==
    /\ pc[t] = "send"
    /\ cur[t].idx <= Len(subs[cur[t].topic])
    /\ LET topic == cur[t].topic
           s == subs[topic][cur[t].idx]
       IN  \/ /\ send_result(topic, s) = "ok"
              /\ queue' = [queue EXCEPT ![topic][s] = Append(@, cur[t].ticket)]
              /\ cur' = [cur EXCEPT ![t].idx = @ + 1]
              /\ UNCHANGED subs
           \/ /\ send_result(topic, s) = "disconnected"
              /\ subs' = [subs EXCEPT ![topic] = RemoveAt(@, cur[t].idx)]
              /\ UNCHANGED <<queue, cur>>
    /\ UNCHANGED <<scanVars, mirrorVars, libVars, extractVars, now, rx, topicLock, pc, events, calls, persistErrs, pruned,
                   received, fullAtCall>>

\* retain is over: the subs mutex is released, log_event comes next
publish_unlock(t) ==
    /\ pc[t] = "send"
    /\ cur[t].idx > Len(subs[cur[t].topic])
    /\ topicLock' = [topicLock EXCEPT ![cur[t].topic] = NoThread]
    /\ pc' = [pc EXCEPT ![t] = "log"]
    /\ UNCHANGED <<scanVars, mirrorVars, libVars, extractVars, now, subs, queue, rx, cur, events, calls, persistErrs, pruned,
                   received, fullAtCall>>

\* publish_source with a failed insert taking the event back from the queues
log_event_retracting(t) ==
    /\ pc[t] = "log"
    /\ pc' = [pc EXCEPT ![t] = "idle"]
    /\ cur' = [cur EXCEPT ![t] = NoEnv]
    /\ fullAtCall' = [fullAtCall EXCEPT ![t] = {}]
    /\ \/ /\ events' = insert_event(events, cur[t])
          /\ UNCHANGED <<persistErrs, queue>>
       \/ /\ persistErrs' = persistErrs + 1
          /\ queue' = [queue EXCEPT ![cur[t].topic] =
                  [s \in DOMAIN @ |-> SelectSeq(@[s], LAMBDA k : k # cur[t].ticket)]]
          /\ UNCHANGED events
    /\ UNCHANGED <<scanVars, mirrorVars, libVars, extractVars, now, subs, rx, topicLock, calls, pruned, received>>

\* log_event under the connection mutex; the insert may fail (the ? operator)
log_event(t) ==
    /\ pc[t] = "log"
    /\ pc' = [pc EXCEPT ![t] = "idle"]
    /\ cur' = [cur EXCEPT ![t] = NoEnv]
    /\ fullAtCall' = [fullAtCall EXCEPT ![t] = {}]
    /\ \/ /\ events' = insert_event(events, cur[t])
          /\ UNCHANGED persistErrs
       \/ /\ persistErrs' = persistErrs + 1
          /\ UNCHANGED events
    /\ UNCHANGED <<scanVars, mirrorVars, libVars, extractVars, now, subs, queue, rx, topicLock, calls, pruned, received>>

\* Envelope::new for a publish made in one step by thread t
Envelope(topic, t) ==
    [topic |-> topic, ticket |-> 0, ts |-> now, idx |-> 1, by |-> t]

\* publish_source / publish_mirror after the broadcast: log_event succeeds
audit_ok(topic, t) ==
    /\ events' = insert_event(events, Envelope(topic, t))
    /\ calls' = calls + 1
    /\ UNCHANGED persistErrs

\* publish_source / publish_mirror after the broadcast: log_event fails
audit_err ==
    /\ calls' = calls + 1
    /\ persistErrs' = persistErrs + 1
    /\ UNCHANGED events

(***************************************************************************)
(* Extraction pool (src/extract/mod.rs)                                    *)
(***************************************************************************)
NoTs == -1
Kinds == {"extraction_completed", "extraction_failed"}
HashCols == Contents \cup {""}

\* publish_source, seen from run_pool's subscription: Sender::send has room
bus_room == Len(reqQ) < source_fs

Ev(type, uid) == [type |-> type, file_uid |-> uid]

\* the files rows a SELECT ... WHERE inode_hint=?1 finds
rows_of(uid) == {r \in files : r.inode_hint = uid}

\* hash_file: the digest of the bytes at path, when the file can be opened
readable(path) == disk[path] # NoFile
hash_file(path) == disk[path].content

\* the catalog schema: extract_jobs is unique on (file_uid, content_hash)
extract_jobs_key(r) == <<r.file_uid, r.content_hash>>

\* the mutant: a plain INSERT, the unique key is not consulted
job_never_present(rows, uid, hash) == TRUE

\* ON CONFLICT(file_uid, content_hash) DO NOTHING inserts only when absent
job_absent(rows, uid, hash) ==
    ~\E r \in rows : extract_jobs_key(r) = <<uid, hash>>

job_row(rows, uid, hash, status, fin) ==
    [id |-> next_rowid(rows), file_uid |-> uid, content_hash |-> hash,
     status |-> status, finished_ts |-> fin]

\* UPDATE extract_jobs SET status, finished_ts WHERE file_uid AND content_hash
set_job_status(rows, uid, hash, status, fin) ==
    {IF r.file_uid = uid /\ r.content_hash = hash
        THEN [r EXCEPT !.status = status, !.finished_ts = fin] ELSE r : r \in rows}

count_up(f, uid, hash, kind) == [f EXCEPT ![<<uid, hash, kind>>] = @ + 1]

\* the metadata service or the reconciler publishes ExtractionRequested,
\* at most max times in all
request_upto(u, max) ==
    /\ requested["f0"] + requested["f1"] < max
    /\ bus_room
    /\ reqQ' = Append(reqQ, Ev("extraction_requested", u))
    /\ requested' = [requested EXCEPT ![u] = @ + 1]
    /\ audit_ok("source.fs", "metadata") \/ audit_err
    /\ UNCHANGED <<scanVars, mirrorVars, libVars, now, busRest, files, disk, dpc, jobq, wpc, wjob, extract_jobs,
                   published, skips, outcome, writes>>

request(u) == request_upto(u, MaxRequests)

\* run_pool: rx_events.recv_timeout returns an event
d_recv ==
    /\ dpc = "recv"
    /\ reqQ # <<>>
    /\ reqQ' = Tail(reqQ)
    /\ dpc' = IF Head(reqQ).type = "extraction_requested"
                THEN Head(reqQ).file_uid ELSE "recv"
    /\ UNCHANGED <<scanVars, mirrorVars, libVars, now, busVars, files, disk, jobq, wpc, wjob, extract_jobs,
                   published, requested, skips, outcome, writes>>

\* run_pool: job_tx.send(file_uid), waiting while the job queue is full
d_send ==
    /\ dpc # "recv"
    /\ Len(jobq) < jobs_bound
    /\ jobq' = Append(jobq, dpc)
    /\ dpc' = "recv"
    /\ UNCHANGED <<scanVars, mirrorVars, libVars, now, busVars, files, disk, reqQ, wpc, wjob, extract_jobs,
                   published, requested, skips, outcome, writes>>

\* worker_loop: rx.recv(), the realpath lookup and hash_file; when either
\* fails a failed row with an empty hash is inserted (errors ignored)
w_take(w) ==
    /\ wpc[w] = "idle"
    /\ jobq # <<>>
    /\ jobq' = Tail(jobq)
    /\ LET uid == Head(jobq)
       IN  \/ \E r \in rows_of(uid) :
                /\ readable(r.realpath)
                /\ wjob' = [wjob EXCEPT ![w] =
                        [uid |-> uid, path |-> r.realpath,
                         hash |-> hash_file(r.realpath)]]
                /\ wpc' = [wpc EXCEPT ![w] = "insert"]
                /\ UNCHANGED extract_jobs
           \/ /\ rows_of(uid) = {} \/ \E r \in rows_of(uid) : ~readable(r.realpath)
              /\ wjob' = [wjob EXCEPT ![w] = [uid |-> uid, path |-> PathA, hash |-> ""]]
              /\ wpc' = [wpc EXCEPT ![w] = "pubfail"]
              /\ extract_jobs' =
                    IF job_absent(extract_jobs, uid, "")
                    THEN extract_jobs \cup
                         {job_row(extract_jobs, uid, "", "failed", now)}
                    ELSE extract_jobs
    /\ UNCHANGED <<scanVars, mirrorVars, libVars, now, busVars, files, disk, reqQ, dpc, published, requested, skips,
                   outcome, writes>>

\* worker_loop: the insert-if-absent of the running row; zero rows inserted
\* means continue
w_insert(w) ==
    /\ wpc[w] = "insert"
    /\ IF job_absent(extract_jobs, wjob[w].uid, wjob[w].hash)
       THEN /\ extract_jobs' = extract_jobs \cup
                    {job_row(extract_jobs, wjob[w].uid, wjob[w].hash, "running",
                             NoTs)}
            /\ wpc' = [wpc EXCEPT ![w] = "extract"]
            /\ UNCHANGED <<skips, wjob>>
       ELSE /\ skips' = [skips EXCEPT ![wjob[w].uid] = @ + 1]
            /\ wpc' = [wpc EXCEPT ![w] = "idle"]
            /\ wjob' = [wjob EXCEPT ![w] = NoJob]
            /\ UNCHANGED extract_jobs
    /\ UNCHANGED <<scanVars, mirrorVars, libVars, now, busVars, files, disk, reqQ, dpc, jobq, published, requested,
                   outcome, writes>>

\* extract_one succeeds in extract_pages and publishes ExtractionCompleted;
\* when the audit insert fails after the broadcast it returns the error and
\* worker_loop sets the job row to failed
w_extract_ok(w) ==
    /\ wpc[w] = "extract"
    /\ readable(wjob[w].path)
    /\ bus_room
    /\ reqQ' = Append(reqQ, Ev("extraction_completed", wjob[w].uid))
    /\ published' = count_up(published, wjob[w].uid, wjob[w].hash,
                             "extraction_completed")
    /\ \/ /\ audit_ok("source.fs", "worker")
          /\ outcome' = [outcome EXCEPT ![wjob[w].uid] = "ok"]
          /\ wpc' = [wpc EXCEPT ![w] = "finish"]
          /\ UNCHANGED extract_jobs
       \/ /\ audit_err
          /\ extract_jobs' = set_job_status(extract_jobs, wjob[w].uid, wjob[w].hash,
                                            "failed", now)
          /\ outcome' = [outcome EXCEPT ![wjob[w].uid] = "persist_err"]
          /\ wpc' = [wpc EXCEPT ![w] = "pubfail"]
    /\ UNCHANGED <<scanVars, mirrorVars, libVars, now, busRest, files, wjob, disk, dpc, jobq, requested,
                   skips, writes>>

\* worker_loop after extract_one returned Ok: the job row is set to done and
\* files.hash to the content hash (errors ignored)
w_finish(w) ==
    /\ wpc[w] = "finish"
    /\ extract_jobs' = set_job_status(extract_jobs, wjob[w].uid, wjob[w].hash,
                                      "done", now)
    /\ files' = {IF r.inode_hint = wjob[w].uid
                    THEN [r EXCEPT !.hash = wjob[w].hash, !.updated_ts = now]
                    ELSE r : r \in files}
    /\ wpc' = [wpc EXCEPT ![w] = "idle"]
    /\ wjob' = [wjob EXCEPT ![w] = NoJob]
    /\ UNCHANGED <<scanVars, mirrorVars, libVars, now, busVars, disk, reqQ, dpc, jobq, published,
                   requested, skips, outcome, writes>>

\* extract_pages fails (unreadable file, no extractor_cmd, extractor exit code)
w_extract_err(w) ==
    /\ wpc[w] = "extract"
    /\ extract_jobs' = set_job_status(extract_jobs, wjob[w].uid, wjob[w].hash,
                                      "failed", now)
    /\ outcome' = [outcome EXCEPT ![wjob[w].uid] = "extract_err"]
    /\ wpc' = [wpc EXCEPT ![w] = "pubfail"]
    /\ UNCHANGED <<scanVars, mirrorVars, libVars, now, busVars, files, disk, reqQ, dpc, jobq, wjob, published,
                   requested, skips, writes>>

\* worker_loop publishes ExtractionFailed, its result ignored
w_pubfail(w) ==
    /\ wpc[w] = "pubfail"
    /\ bus_room
    /\ reqQ' = Append(reqQ, Ev("extraction_failed", wjob[w].uid))
    /\ published' = count_up(published, wjob[w].uid, wjob[w].hash, "extraction_failed")
    /\ wpc' = [wpc EXCEPT ![w] = "idle"]
    /\ wjob' = [wjob EXCEPT ![w] = NoJob]
    /\ audit_ok("source.fs", "worker") \/ audit_err
    /\ UNCHANGED <<scanVars, mirrorVars, libVars, now, busRest, files, disk, dpc, jobq, extract_jobs, requested,
                   skips, outcome, writes>>

\* the process is killed while a worker is inside extract_one, its job row
\* running, and is started again: the catalog and the source tree are as
\* they were, the channels are new and empty, run_pool and the workers are
\* at the head of their loops
kill_restart ==
    /\ \E w \in Workers : wpc[w] = "extract"
    /\ reqQ' = <<>>
    /\ dpc' = "recv"
    /\ jobq' = <<>>
    /\ wpc' = [w \in Workers |-> "idle"]
    /\ wjob' = [w \in Workers |-> NoJob]
    /\ UNCHANGED <<scanVars, mirrorVars, libVars, now, busVars, files, disk, extract_jobs,
                   published, requested, skips, outcome, writes>>

\* the source file is rewritten with other content
write_content(path) ==
    /\ writes < MaxWrites
    /\ disk[path] # NoFile
    /\ \E c \in Contents \ {disk[path].content} :
            disk' = [disk EXCEPT ![path].content = c, ![path].sig = @ + 1]
    /\ writes' = writes + 1
    /\ UNCHANGED <<scanVars, mirrorVars, libVars, now, busVars, files, reqQ, dpc, jobq, wpc, wjob, extract_jobs,
                   published, requested, skips, outcome>>

(***************************************************************************)
(* Text, pages and chunks (src/extract/mod.rs, src/mirror/mod.rs)          *)
(***************************************************************************)
FF == "\f"

\* char::is_whitespace on the characters of the model
is_whitespace(c) == c \in {" ", "\n", "\r", "\t", FF}

\* a text of TOKENS_PER_CHUNK + 1 one-letter words
LongText == [i \in 1..(2 * TOKENS_PER_CHUNK + 1) |-> IF i % 2 = 1 THEN "x" ELSE " "]

\* what extract_pages reads from a file of the given content
TextOf(h) ==
    CASE h = "h1" -> <<"x", " ", "x", FF, "x", "\r", "\n">>
      [] h = "h2" -> <<"x">>
      [] OTHER -> LongText

\* text.split('\x0c'): the k-th part lies between the (k-1)-th and the k-th
\* form feed
split_ff(text) ==
    LET ffs == {i \in 1..Len(text) : text[i] = FF}
        ff(k) == IF k = 0 THEN 0
                 ELSE IF k > Cardinality(ffs) THEN Len(text) + 1
                 ELSE CHOOSE i \in ffs : Cardinality({j \in ffs : j < i}) = k - 1
    IN  [k \in 1..(Cardinality(ffs) + 1) |-> SubSeq(text, ff(k - 1) + 1, ff(k) - 1)]

\* a scalar value of two UTF-8 bytes, and str::len of one character
Wide == "U+03B1"
utf8_len(c) == IF c = Wide THEN 2 ELSE 1

RECURSIVE byte_len(_)
byte_len(text) == IF text = <<>> THEN 0 ELSE utf8_len(Head(text)) + byte_len(Tail(text))

\* split_pages with p.len() in place of p.chars().count()
split_pages_bytes(text) ==
    LET parts == split_ff(text)
        start[k \in 1..Len(parts)] ==
            IF k = 1 THEN 0 ELSE start[k - 1] + byte_len(parts[k - 1]) + 1
    IN  [k \in 1..Len(parts) |->
            [page_no |-> k, text |-> parts[k], start |-> start[k],
             end |-> start[k] + byte_len(parts[k])]]

\* split_pages: pages numbered from 1, offsets counting the delimiter
split_pages(text) ==
    LET parts == split_ff(text)
        start[k \in 1..Len(parts)] ==
            IF k = 1 THEN 0 ELSE start[k - 1] + Len(parts[k - 1]) + 1
    IN  [k \in 1..Len(parts) |->
            [page_no |-> k, text |-> parts[k], start |-> start[k],
             end |-> start[k] + Len(parts[k])]]

\* the inner loop run while tokens <= TOKENS_PER_CHUNK: one run too many
chunk_end_one_more(chars, idx) ==
    LET ws(j) == is_whitespace(chars[j + 1])
        tokens(end) == Cardinality({j \in idx..(end - 1) :
                                      ws(j) /\ (j = idx \/ ~ws(j - 1))})
        visited(end) == end = idx \/ end = Len(chars) \/ ~(ws(end - 1) /\ ws(end))
        stops == {end \in idx..Len(chars) :
                    visited(end) /\ (end = Len(chars) \/ tokens(end) > TOKENS_PER_CHUNK)}
    IN  CHOOSE end \in stops : \A o \in stops : end <= o

\* write_chunks_impl, inner loops, from idx (0-based): tokens counts the runs
\* of whitespace passed, a run is passed whole, and the loop stops at the
\* first end where the page is exhausted or tokens reached TOKENS_PER_CHUNK
chunk_end(chars, idx) ==
    LET ws(j) == is_whitespace(chars[j + 1])
        tokens(end) == Cardinality({j \in idx..(end - 1) :
                                      ws(j) /\ (j = idx \/ ~ws(j - 1))})
        visited(end) == end = idx \/ end = Len(chars) \/ ~(ws(end - 1) /\ ws(end))
        stops == {end \in idx..Len(chars) :
                    visited(end) /\ (end = Len(chars) \/ tokens(end) >= TOKENS_PER_CHUNK)}
    IN  CHOOSE end \in stops : \A o \in stops : end <= o

\* text.replace("\r\n", "\n").replace('\r', "\n"): every \r becomes \n and
\* the \n of a \r\n pair is dropped
RECURSIVE unify_newlines(_, _, _)
unify_newlines(text, lo, hi) ==
    IF lo > hi THEN <<>>
    ELSE IF lo = hi
         THEN IF text[lo] = "\r" THEN <<"\n">>
              ELSE IF text[lo] = "\n" /\ lo > 1 /\ text[lo - 1] = "\r" THEN <<>>
              ELSE <<text[lo]>>
    ELSE unify_newlines(text, lo, (lo + hi) \div 2)
         \o unify_newlines(text, (lo + hi) \div 2 + 1, hi)

\* str::trim_end
trim_end(text) ==
    LET keep == {i \in 1..Len(text) : ~is_whitespace(text[i])}
    IN  SubSeq(text, 1, IF keep = {} THEN 0 ELSE CHOOSE i \in keep : \A j \in keep : j <= i)

\* make_chunk_id without the normalization: the text is hashed as it is
make_chunk_id_raw(file_uid, content_hash, page_no, start, end, text) ==
    <<file_uid, content_hash, page_no, start, end, text>>

\* extract_pages(path): the file is read as it is on disk at that moment and
\* its text split into pages
pages_of_file(path) == split_pages(TextOf(disk[path].content))

\* make_chunk_id: SHA-256 over the fields and the normalized text, kept as
\* the tuple of what is hashed
make_chunk_id(file_uid, content_hash, page_no, start, end, text) ==
    <<file_uid, content_hash, page_no, start, end, trim_end(unify_newlines(text, 1, Len(text)))>>

\* write_chunks_impl, the while loop over one page: its chunks from idx on
RECURSIVE page_chunks(_, _, _, _)
page_chunks(file_uid, content_hash, page, idx) ==
    IF idx < Len(page.text)
    THEN LET end == chunk_end(page.text, idx)
         IN  IF end = idx THEN <<>>
             ELSE <<[chunk_id |-> make_chunk_id(file_uid, content_hash, page.page_no,
                                               idx, end,
                                               SubSeq(page.text, idx + 1, end)),
                     page |-> page.page_no, start_char |-> idx, end_char |-> end]>>
                  \o page_chunks(file_uid, content_hash, page, end)
    ELSE <<>>

\* write_chunks_impl, the for loop over the pages
RECURSIVE pages_chunks(_, _, _, _)
pages_chunks(file_uid, content_hash, pages, k) ==
    IF k > Len(pages) THEN <<>>
    ELSE page_chunks(file_uid, content_hash, pages[k], 0)
         \o pages_chunks(file_uid, content_hash, pages, k + 1)

\* the chunks write_chunks_impl emits for ExtractionCompleted{file_uid,
\* content_hash, pages}, in order
DocChunks ==
    [u \in Uids |-> [h \in Contents |->
        pages_chunks(u, h, split_pages(TextOf(h)), 1)]]

(***************************************************************************)
(* Mirror builder (src/mirror/mod.rs)                                      *)
(***************************************************************************)
starts_with(path, root) ==
    Len(path) >= Len(root) /\ SubSeq(path, 1, Len(root)) = root

\* relativize: the path below the first root that contains it, else the path
relativize(path, rts) ==
    LET hits == {i \in 1..Len(rts) : starts_with(path, rts[i])}
    IN  IF hits = {} THEN path
        ELSE LET i == CHOOSE i \in hits : \A j \in hits : i <= j
             IN  SubSeq(path, Len(rts[i]) + 1, Len(path))

\* the mirror directories: cfg.mirror.root joined with a relative path
Dirs == {relativize(p, roots) : p \in Paths}

Absent == [exists |-> FALSE, data |-> <<>>]
File(data) == [exists |-> TRUE, data |-> data]
EmptyDir == [meta |-> Absent, meta_tmp |-> Absent, chunks |-> Absent,
             chunks_tmp |-> Absent]

\* no earlier handling of the same event to compare with
NoSnap == [meta |-> Absent, chunks |-> Absent, docs |-> {}, rows |-> {}]

NoMJob == [uid |-> "f0", hash |-> "h1", dir |-> <<"a">>, k |-> 0, prev |-> 0,
           first |-> NoSnap]

\* the pages carried by ExtractionCompleted{file_uid, content_hash, pages}
PagesOf(h) == split_pages(TextOf(h))

\* the Meta record write_meta serializes
meta_json(uid, hash, page_count, ts) == <<uid, hash, page_count, ts>>

\* the Chunk record write_chunks_impl serializes on one line
chunk_line(c, uid, hash, order) ==
    [chunk_id |-> c.chunk_id, file_uid |-> uid, content_hash |-> hash,
     order |-> order, page |-> c.page, start_char |-> c.start_char,
     end_char |-> c.end_char]

\* the catalog schema: primary keys of mirror_docs and mirror_chunks
mirror_docs_key(r) == r.file_uid
mirror_chunks_key(r) == r.chunk_id

\* INSERT OR REPLACE INTO mirror_docs
upsert_doc(rows, uid, hash, path, ts) ==
    {r \in rows : mirror_docs_key(r) # uid}
        \cup {[file_uid |-> uid, content_hash |-> hash, path |-> path,
               updated_ts |-> ts]}

\* the mutant: the old rows of the file are left in place
keep_chunks(rows, uid) == rows

\* DELETE FROM mirror_chunks WHERE file_uid=?1
delete_chunks(rows, uid) == {r \in rows : r.file_uid # uid}

\* the mutant: the row of the chunk is not written
skip_chunk(rows, chunk_id, uid, order) == rows

\* INSERT OR REPLACE INTO mirror_chunks
upsert_chunk(rows, chunk_id, uid, order) ==
    {r \in rows : mirror_chunks_key(r) # chunk_id}
        \cup {[chunk_id |-> chunk_id, file_uid |-> uid, ord |-> order]}

\* the mutant: the file is opened for appending
open_file(old) == File(old.data)

\* File::create: the file is created, or truncated when it exists
create_file(old) == File(<<>>)

\* the mutant: the removal does nothing
leave_file(old) == old

\* fs::remove_file
remove_file(old) == Absent

chunk_rows(uid) == {r \in mirror_chunks : r.file_uid = uid}

MEv(type, uid) == [type |-> type, file_uid |-> uid]

\* handle_extraction has returned res
returned(res) == mpc = "idle" /\ mres = res

\* the mirror of a file as it stands: its two files and its catalog rows
snapshot(uid, dir) ==
    [meta |-> mirror_fs[dir].meta, chunks |-> mirror_fs[dir].chunks,
     docs |-> {r \in mirror_docs : r.file_uid = uid}, rows |-> chunk_rows(uid)]

\* what no mirror action changes
offMirror == <<now, busRest, extractVars, scanVars, libVars>>
no_audit == UNCHANGED <<events, calls, persistErrs>>

\* handle_extraction up to create_dir_all: the realpath lookup, relativize
\* and the directory; an error here is returned at once
handle_begin(u, h) ==
    /\ mpc = "idle"
    /\ handles < MaxHandles
    /\ handles' = handles + 1
    /\ mlog' = <<>>
    /\ \/ /\ rows_of(u) = {}
          /\ mres' = "err_lookup"
          /\ UNCHANGED <<mpc, mjob>>
       \/ \E r \in rows_of(u) :
            \/ /\ mjob' = [uid |-> u, hash |-> h, dir |-> relativize(r.realpath, roots),
                           k |-> 0, prev |-> Cardinality(chunk_rows(u)),
                           first |-> IF returned("ok") /\ mjob.uid = u /\ mjob.hash = h
                                     THEN snapshot(u, mjob.dir) ELSE NoSnap]
               /\ mpc' = "write_meta"
               /\ mres' = "running"
            \/ /\ mres' = "err_mkdir"
               /\ UNCHANGED <<mpc, mjob>>
    /\ no_audit
    /\ UNCHANGED <<offMirror, mirror_fs, mirror_docs, mirror_chunks, interrupted>>

\* write_meta: meta.json.tmp created, written, synced and renamed
m_write_meta ==
    /\ mpc = "write_meta"
    /\ LET d == mjob.dir
           m == meta_json(mjob.uid, mjob.hash, Len(PagesOf(mjob.hash)), now)
       IN  \/ /\ mirror_fs' = [mirror_fs EXCEPT ![d].meta = File(m),
                                                ![d].meta_tmp = Absent]
              /\ mpc' = "upsert_doc"
           \/ /\ mpc' = "rollback"
              /\ UNCHANGED mirror_fs
           \/ /\ mirror_fs' = [mirror_fs EXCEPT ![d].meta_tmp = File(m)]
              /\ mpc' = "rollback"
    /\ no_audit
    /\ UNCHANGED <<offMirror, mirror_docs, mirror_chunks, mjob, mres, mlog,
                   interrupted, handles>>

\* the mirror_docs upsert and the delete of the file's old mirror_chunks
m_upsert_doc ==
    /\ mpc = "upsert_doc"
    /\ \/ /\ mpc' = "rollback"
          /\ UNCHANGED <<mirror_docs, mirror_chunks>>
       \/ /\ mirror_docs' = upsert_doc(mirror_docs, mjob.uid, mjob.hash, mjob.dir, now)
          /\ mpc' = "rollback"
          /\ UNCHANGED mirror_chunks
       \/ /\ mirror_docs' = upsert_doc(mirror_docs, mjob.uid, mjob.hash, mjob.dir, now)
          /\ mirror_chunks' = delete_chunks(mirror_chunks, mjob.uid)
          /\ mpc' = "create_tmp"
    /\ no_audit
    /\ UNCHANGED <<offMirror, mirror_fs, mjob, mres, mlog, interrupted, handles>>

\* write_chunks_impl: File::create(chunks.jsonl.tmp)
m_create_tmp ==
    /\ mpc = "create_tmp"
    /\ \/ /\ mirror_fs' = [mirror_fs EXCEPT ![mjob.dir].chunks_tmp = create_file(@)]
          /\ mpc' = "chunk"
       \/ /\ mpc' = "rollback"
          /\ UNCHANGED mirror_fs
    /\ no_audit
    /\ UNCHANGED <<offMirror, mirror_docs, mirror_chunks, mjob, mres, mlog,
                   interrupted, handles>>

\* write_chunks_impl, one chunk: the line is written and flushed, the row
\* upserted, MirrorChunkUpserted published
m_chunk ==
    /\ mpc = "chunk"
    /\ mjob.k < Len(DocChunks[mjob.uid][mjob.hash])
    /\ LET c == DocChunks[mjob.uid][mjob.hash][mjob.k + 1]
           line == chunk_line(c, mjob.uid, mjob.hash, mjob.k)
           written == [mirror_fs EXCEPT ![mjob.dir].chunks_tmp.data = Append(@, line)]
           upserted == upsert_chunk(mirror_chunks, c.chunk_id, mjob.uid, mjob.k)
       IN  \/ /\ mpc' = "rollback"
              /\ no_audit
              /\ UNCHANGED <<mirror_fs, mirror_chunks, mjob, mlog>>
           \/ /\ mirror_fs' = written
              /\ mpc' = "rollback"
              /\ no_audit
              /\ UNCHANGED <<mirror_chunks, mjob, mlog>>
           \/ /\ mirror_fs' = written
              /\ mirror_chunks' = upserted
              /\ mlog' = Append(mlog, MEv("mirror_chunk_upserted", mjob.uid))
              /\ mjob' = [mjob EXCEPT !.k = @ + 1]
              /\ \/ audit_ok("mirror.text", "mirror") /\ UNCHANGED mpc
                 \/ audit_err /\ mpc' = "rollback"
    /\ UNCHANGED <<offMirror, mirror_docs, mres, interrupted, handles>>

\* write_chunks_impl after the loops: flush, sync_all, rename onto chunks.jsonl
m_close ==
    /\ mpc = "chunk"
    /\ mjob.k = Len(DocChunks[mjob.uid][mjob.hash])
    /\ \/ /\ mirror_fs' = [mirror_fs EXCEPT
                             ![mjob.dir].chunks = mirror_fs[mjob.dir].chunks_tmp,
                             ![mjob.dir].chunks_tmp = Absent]
          /\ mpc' = "publish_doc"
       \/ /\ mpc' = "rollback"
          /\ UNCHANGED mirror_fs
    /\ no_audit
    /\ UNCHANGED <<offMirror, mirror_docs, mirror_chunks, mjob, mres, mlog,
                   interrupted, handles>>

\* publish_mirror(MirrorDocUpserted), the last step of the closure
m_publish_doc ==
    /\ mpc = "publish_doc"
    /\ mlog' = Append(mlog, MEv("mirror_doc_upserted", mjob.uid))
    /\ \/ /\ audit_ok("mirror.text", "mirror")
          /\ mpc' = "idle"
          /\ mres' = "ok"
       \/ /\ audit_err
          /\ mpc' = "rollback"
          /\ UNCHANGED mres
    /\ UNCHANGED <<offMirror, mirror_fs, mirror_docs, mirror_chunks, mjob,
                   interrupted, handles>>

\* the failure branch: rows deleted, the four files removed, MirrorDocDeleted
\* published, the error returned
m_rollback ==
    /\ mpc = "rollback"
    /\ mirror_docs' = {r \in mirror_docs : r.file_uid # mjob.uid}
    /\ mirror_chunks' = delete_chunks(mirror_chunks, mjob.uid)
    /\ mirror_fs' = [mirror_fs EXCEPT ![mjob.dir] =
            [meta |-> remove_file(@.meta), chunks |-> remove_file(@.chunks),
             meta_tmp |-> remove_file(@.meta_tmp),
             chunks_tmp |-> remove_file(@.chunks_tmp)]]
    /\ mlog' = Append(mlog, MEv("mirror_doc_deleted", mjob.uid))
    /\ audit_ok("mirror.text", "mirror") \/ audit_err
    /\ mpc' = "idle"
    /\ mres' = "err"
    /\ interrupted' = IF mjob.k >= 1 THEN interrupted \cup {<<mjob.uid, mjob.hash>>}
                      ELSE interrupted
    /\ UNCHANGED <<offMirror, mjob, handles>>

\* the process is killed inside handle_extraction: the catalog and the mirror
\* tree stay as they are
m_crash ==
    /\ mpc # "idle"
    /\ mpc' = "idle"
    /\ mres' = "crashed"
    /\ interrupted' = IF mpc = "chunk" /\ mjob.k >= 1
                      THEN interrupted \cup {<<mjob.uid, mjob.hash>>}
                      ELSE interrupted
    /\ no_audit
    /\ UNCHANGED <<offMirror, mirror_fs, mirror_docs, mirror_chunks, mjob, mlog,
                   handles>>

(***************************************************************************)
(* Scanner and metadata service (src/fs/mod.rs, src/metadata.rs)           *)
(***************************************************************************)
NoInfo == [path |-> <<>>, fast_sig |-> -1]
NoMeta == [file_uid |-> "f0", path |-> PathA, fast_sig |-> 0]
NoDelta == [type |-> "sync_delta", seq |-> 0, added |-> {}, modified |-> {},
            moved |-> {}, deleted |-> {}]
NoRename == [uid |-> "f0", to |-> PathA, stage |-> "none", seq |-> 0, how |-> "none"]

\* cold_scan's walk: per file_uid (device and inode) the file found, if any
current_scan ==
    [u \in Uids |->
        IF \E p \in Paths : disk[p].uid = u
        THEN LET p == CHOOSE p \in Paths : disk[p].uid = u
             IN  [path |-> p, fast_sig |-> disk[p].sig]
        ELSE NoInfo]

\* to_meta
to_meta(u, info) == [file_uid |-> u, path |-> info.path, fast_sig |-> info.fast_sig]

\* emit_delta: the SyncDelta of current against the previous state
\* emit_delta with "if" in place of "else if": a file that moved and changed
\* is reported as moved and as modified
emit_delta_both(state, current, seq) ==
    [type |-> "sync_delta", seq |-> seq,
     added |-> {to_meta(u, current[u]) :
                  u \in {v \in Uids : current[v] # NoInfo /\ state[v] = NoInfo}},
     modified |-> {to_meta(u, current[u]) :
                  u \in {v \in Uids : /\ current[v] # NoInfo /\ state[v] # NoInfo
                                      /\ state[v].fast_sig # current[v].fast_sig}},
     moved |-> {[file_uid |-> u, from |-> state[u].path, to |-> current[u].path] :
                  u \in {v \in Uids : /\ current[v] # NoInfo /\ state[v] # NoInfo
                                      /\ state[v].path # current[v].path}},
     deleted |-> {to_meta(u, state[u]) :
                  u \in {v \in Uids : state[v] # NoInfo /\ current[v] = NoInfo}}]

emit_delta(state, current, seq) ==
    [type |-> "sync_delta", seq |-> seq,
     added |-> {to_meta(u, current[u]) :
                  u \in {v \in Uids : current[v] # NoInfo /\ state[v] = NoInfo}},
     modified |-> {to_meta(u, current[u]) :
                  u \in {v \in Uids : /\ current[v] # NoInfo /\ state[v] # NoInfo
                                      /\ state[v].path = current[v].path
                                      /\ state[v].fast_sig # current[v].fast_sig}},
     moved |-> {[file_uid |-> u, from |-> state[u].path, to |-> current[u].path] :
                  u \in {v \in Uids : /\ current[v] # NoInfo /\ state[v] # NoInfo
                                      /\ state[v].path # current[v].path}},
     deleted |-> {to_meta(u, state[u]) :
                  u \in {v \in Uids : state[v] # NoInfo /\ current[v] = NoInfo}}]

delta_empty(d) == d.added = {} /\ d.modified = {} /\ d.moved = {} /\ d.deleted = {}

\* the metadata service still holds its Receiver: run has not returned, be
\* it with an error ("dead") or because of the stop flag ("stopped")
meta_alive == meta_pc \notin {"dead", "stopped"}

\* the source topic holds a Sender of the metadata service: run has
\* subscribed (it does so in its own thread, "spawned" until then) and has
\* not returned
meta_subscribed == meta_alive /\ meta_pc # "spawned"

\* while !stop.load(): back at the head of the loop, run returns when the
\* flag is set and else waits in recv_timeout
loop_head == IF stop THEN "stopped" ELSE "recv"

\* a file appears in the tree
fs_create(p, u) ==
    /\ fsops < MaxFsOps
    /\ disk[p] = NoFile
    /\ \A q \in Paths : disk[q].uid # u
    /\ disk' = [disk EXCEPT ![p] = DiskFile(u, "h1")]
    /\ fsops' = fsops + 1
    /\ lastRename' = NoRename
    /\ no_audit
    /\ UNCHANGED <<now, busRest, mirrorVars, libVars, files, reqQ, dpc, jobq, wpc, wjob,
                   extract_jobs, published, requested, skips, outcome, writes,
                   fs_state, metaQ, meta_pc, meta_delta, meta_orig, meta_cur, ops_log, scans,
                   stop>>

\* rename(2): the file at p takes the path q, replacing what was there
fs_rename(p, q) ==
    /\ fsops < MaxFsOps
    /\ p # q
    /\ disk[p] # NoFile
    /\ disk' = [disk EXCEPT ![q] = disk[p], ![p] = NoFile]
    /\ fsops' = fsops + 1
    /\ lastRename' = IF fs_state[disk[p].uid] # NoInfo
                     THEN [uid |-> disk[p].uid, to |-> q, stage |-> "renamed",
                           seq |-> 0, how |-> "none"]
                     ELSE NoRename
    /\ no_audit
    /\ UNCHANGED <<now, busRest, mirrorVars, libVars, files, reqQ, dpc, jobq, wpc, wjob,
                   extract_jobs, published, requested, skips, outcome, writes,
                   fs_state, metaQ, meta_pc, meta_delta, meta_orig, meta_cur, ops_log, scans,
                   stop>>

\* a file is removed from the tree
fs_delete(p) ==
    /\ fsops < MaxFsOps
    /\ disk[p] # NoFile
    /\ disk' = [disk EXCEPT ![p] = NoFile]
    /\ fsops' = fsops + 1
    /\ lastRename' = NoRename
    /\ no_audit
    /\ UNCHANGED <<now, busRest, mirrorVars, libVars, files, reqQ, dpc, jobq, wpc, wjob,
                   extract_jobs, published, requested, skips, outcome, writes,
                   fs_state, metaQ, meta_pc, meta_delta, meta_orig, meta_cur, ops_log, scans,
                   stop>>

\* cold_scan: walk, emit_delta, publish_source(SyncDelta) unless the delta is
\* empty, and only after a successful publish the new state
cold_scan ==
    /\ scans < MaxScans
    /\ scans' = scans + 1
    /\ LET d == emit_delta(fs_state, current_scan, scans + 1)
       IN  IF delta_empty(d)
           THEN /\ fs_state' = current_scan
                /\ no_audit
                /\ UNCHANGED <<metaQ, lastRename>>
           ELSE /\ meta_subscribed => Len(metaQ) < source_fs
                /\ metaQ' = IF meta_subscribed THEN Append(metaQ, d) ELSE metaQ
                /\ lastRename' =
                      IF /\ lastRename.stage = "renamed"
                         /\ \E m \in d.moved : m.file_uid = lastRename.uid
                      THEN [lastRename EXCEPT !.stage = "scanned", !.seq = scans + 1]
                      ELSE lastRename
                /\ \/ audit_ok("source.fs", "scanner") /\ fs_state' = current_scan
                   \/ audit_err /\ UNCHANGED fs_state
    /\ UNCHANGED <<now, busRest, mirrorVars, libVars, extractVars, meta_pc, meta_delta, meta_orig,
                   meta_cur, ops_log, fsops, stop>>

\* the handler to run next for what is left of the delta: added, modified,
\* moved, deleted, in this order
next_pc(d) ==
    IF d.added # {} THEN "added"
    ELSE IF d.modified # {} THEN "modified"
    ELSE IF d.moved # {} THEN "moved"
    ELSE IF d.deleted # {} THEN "deleted"
    ELSE loop_head

\* the handling of delta seq ended (how): noted for the rename it carried
handled(how, seq) ==
    IF lastRename.stage = "scanned" /\ lastRename.seq = seq
    THEN [lastRename EXCEPT !.stage = "handled", !.how = how]
    ELSE lastRename

\* one entry of the delta is done: on to the next, or back to recv
meta_step(d) ==
    /\ meta_delta' = d
    /\ meta_pc' = next_pc(d)
    /\ lastRename' = IF next_pc(d) = loop_head THEN handled("ok", d.seq) ELSE lastRename

\* a handler returned an error: run returns it
meta_fail(how) ==
    /\ meta_pc' = "dead"
    /\ lastRename' = handled(how, meta_delta.seq)
    /\ UNCHANGED meta_delta

\* files.realpath is UNIQUE: an UPDATE of the rows of uid to this realpath fails
realpath_conflict(rows, uid, path) ==
    LET hit == {r \in rows : r.inode_hint = uid}
    IN  \/ Cardinality(hit) >= 2
        \/ hit # {} /\ \E r \in rows \ hit : r.realpath = path

\* INSERT OR REPLACE INTO files: the row of the same realpath is replaced
insert_or_replace_file(rows, f, ts) ==
    {r \in rows : r.realpath # f.path}
        \cup {[id |-> next_rowid(rows), realpath |-> f.path, inode_hint |-> f.file_uid,
               status |-> "active", hash |-> NoHash, fast_sig |-> f.fast_sig,
               updated_ts |-> ts]}

\* handle_modified's UPDATE files SET realpath, fast_sig, hash=NULL, status='active'
update_modified(rows, f, ts) ==
    {IF r.inode_hint = f.file_uid
        THEN [r EXCEPT !.realpath = f.path, !.fast_sig = f.fast_sig, !.hash = NoHash,
                       !.status = "active", !.updated_ts = ts]
        ELSE r : r \in rows}

\* handle_moved: UPDATE files SET realpath, updated_ts WHERE inode_hint
update_realpath(rows, uid, path, ts) ==
    {IF r.inode_hint = uid THEN [r EXCEPT !.realpath = path, !.updated_ts = ts]
        ELSE r : r \in rows}

\* handle_deleted's UPDATE files SET status='deleted'
update_deleted(rows, uid, ts) ==
    {IF r.inode_hint = uid THEN [r EXCEPT !.status = "deleted", !.updated_ts = ts]
        ELSE r : r \in rows}

\* what the metadata service's own steps leave alone
offRecv == <<now, busRest, mirrorVars, libVars, disk, reqQ, dpc, jobq, wpc, wjob, extract_jobs,
             published, requested, skips, outcome, writes, fs_state, fsops, scans,
             stop>>
offMeta == <<offRecv, meta_orig>>

\* run, in the thread main spawned for it: db::open, then subscribe_source;
\* run returns the error of db::open
meta_start ==
    /\ meta_pc = "spawned"
    /\ \/ meta_pc' = loop_head
       \/ meta_pc' = "dead"
    /\ no_audit
    /\ UNCHANGED <<offRecv, files, metaQ, meta_delta, meta_orig, meta_cur, ops_log, lastRename>>

\* run: rx.recv_timeout returns an envelope; only a SyncDelta is handled
meta_recv ==
    /\ meta_pc = "recv"
    /\ metaQ # <<>>
    /\ metaQ' = Tail(metaQ)
    /\ IF Head(metaQ).type = "sync_delta"
       THEN /\ meta_delta' = Head(metaQ)
            /\ meta_orig' = Head(metaQ)
            /\ meta_pc' = next_pc(Head(metaQ))
       ELSE /\ meta_pc' = loop_head
            /\ UNCHANGED <<meta_delta, meta_orig>>
    /\ no_audit
    /\ UNCHANGED <<offRecv, files, meta_cur, ops_log, lastRename>>

\* run: recv_timeout returns Timeout, the flag is found set, run returns and
\* its Receiver is dropped
meta_stop ==
    /\ meta_pc = "recv"
    /\ stop
    /\ meta_pc' = "stopped"
    /\ metaQ' = <<>>
    /\ no_audit
    /\ UNCHANGED <<offMeta, files, meta_delta, meta_cur, ops_log, lastRename>>

\* the flag is set (stop.store(true))
set_stop ==
    /\ ~stop
    /\ stop' = TRUE
    /\ UNCHANGED <<now, busVars, extractVars, mirrorVars, libVars, fs_state, metaQ,
                   meta_pc, meta_delta, meta_orig, meta_cur, ops_log, lastRename, fsops, scans>>

\* handle_added, one file: the upsert and the ops-log entry
meta_added ==
    /\ meta_pc = "added"
    /\ \E f \in meta_delta.added :
        /\ files' = insert_or_replace_file(files, f, now)
        /\ meta_cur' = f
    /\ ops_log' = Append(ops_log, "add")
    /\ meta_pc' = "added_pub"
    /\ no_audit
    /\ UNCHANGED <<offMeta, metaQ, meta_delta, lastRename>>

\* handle_modified, one file: the UPDATE and the ops-log entry
meta_modified ==
    /\ meta_pc = "modified"
    /\ \E f \in meta_delta.modified :
        IF realpath_conflict(files, f.file_uid, f.path)
        THEN /\ meta_fail("unique_violation")
             /\ UNCHANGED <<files, meta_cur, ops_log>>
        ELSE /\ files' = update_modified(files, f, now)
             /\ meta_cur' = f
             /\ ops_log' = Append(ops_log, "mod")
             /\ meta_pc' = "modified_pub"
             /\ UNCHANGED <<meta_delta, lastRename>>
    /\ no_audit
    /\ UNCHANGED <<offMeta, metaQ>>

\* handle_added / handle_modified: publish_source(ExtractionRequested), which
\* the service's own queue receives too
meta_publish ==
    /\ meta_pc \in {"added_pub", "modified_pub"}
    /\ Len(metaQ) < source_fs
    /\ metaQ' = Append(metaQ, Ev("extraction_requested", meta_cur.file_uid))
    /\ \/ /\ audit_ok("source.fs", "metadata")
          /\ meta_step(IF meta_pc = "added_pub"
                       THEN [meta_delta EXCEPT !.added = @ \ {meta_cur}]
                       ELSE [meta_delta EXCEPT !.modified = @ \ {meta_cur}])
       \/ /\ audit_err
          /\ meta_fail("persist_error")
    /\ UNCHANGED <<offMeta, files, meta_cur, ops_log>>

\* handle_moved, one move: the UPDATE of realpath and the ops-log entry
meta_moved ==
    /\ meta_pc = "moved"
    /\ \E m \in meta_delta.moved :
        IF realpath_conflict(files, m.file_uid, m.to)
        THEN /\ meta_fail("unique_violation")
             /\ UNCHANGED <<files, ops_log>>
        ELSE /\ files' = update_realpath(files, m.file_uid, m.to, now)
             /\ ops_log' = Append(ops_log, "mv")
             /\ meta_step([meta_delta EXCEPT !.moved = @ \ {m}])
    /\ no_audit
    /\ UNCHANGED <<offMeta, metaQ, meta_cur>>

\* handle_deleted, one file: the tombstone and the ops-log entry
meta_deleted ==
    /\ meta_pc = "deleted"
    /\ \E f \in meta_delta.deleted :
        /\ files' = update_deleted(files, f.file_uid, now)
        /\ meta_step([meta_delta EXCEPT !.deleted = @ \ {f}])
    /\ ops_log' = Append(ops_log, "del")
    /\ no_audit
    /\ UNCHANGED <<offMeta, metaQ, meta_cur>>

(***************************************************************************)
(* Clock and retention (src/maintain.rs)                                   *)
(***************************************************************************)
Tick ==
    /\ now < MaxDays * DaySecs
    /\ now' = now + DaySecs
    /\ UNCHANGED <<busVars, extractVars, mirrorVars, libVars, scanVars>>

\* prune_events: DELETE FROM events WHERE ts < now - days * 86400
prune_events(rows, t, days) == {r \in rows : ~(r.ts < t - days * DaySecs)}

\* prune_extract_jobs, first statement: failed jobs finished before the cutoff
prune_failed_jobs(rows, t, failed_days) ==
    {r \in rows : ~(r.status = "failed" /\ r.finished_ts # NoTs
                      /\ r.finished_ts < t - failed_days * DaySecs)}

\* the mutant: ROW_NUMBER() OVER (ORDER BY id DESC), no partition
row_number_overall(rows, r) ==
    1 + Cardinality({o \in rows : o.id > r.id})

\* ROW_NUMBER() OVER (PARTITION BY file_uid ORDER BY id DESC)
row_number(rows, r) ==
    1 + Cardinality({o \in rows : o.file_uid = r.file_uid /\ o.id > r.id})

\* prune_extract_jobs
prune_extract_jobs(rows, t, keep_per_file, failed_days) ==
    LET left == prune_failed_jobs(rows, t, failed_days)
    IN  {r \in left : ~(row_number(left, r) > keep_per_file)}

\* prune_files: DELETE FROM files WHERE status!='active' AND updated_ts < cutoff
prune_files(rows, t, days) ==
    {r \in rows : ~(r.status # "active" /\ r.updated_ts < t - days * DaySecs)}

\* clean_orphans: the mirror_docs rows whose file_uid no files row carries
orphans(docs, rows) ==
    {d \in docs : ~(\E r \in rows : r.inode_hint = d.file_uid)}

\* clean_orphans: remove_dir_all of each orphan's directory
clean_orphans_fs(tree, docs, rows) ==
    [d \in DOMAIN tree |->
        IF \E o \in orphans(docs, rows) : o.path = d THEN EmptyDir ELSE tree[d]]

\* clean_orphans: the orphans' rows deleted from mirror_docs
clean_orphans_docs(docs, rows) == docs \ orphans(docs, rows)

\* clean_orphans: the orphans' chunks, then the chunks without a parent doc
clean_orphans_chunks(chunks, docs, rows) ==
    {c \in chunks : \E d \in clean_orphans_docs(docs, rows) : d.file_uid = c.file_uid}

\* maintain::run
retention_run ==
    /\ events' = prune_events(events, now, events_days)
    /\ pruned' = pruned + Cardinality(events) - Cardinality(events')
    /\ extract_jobs' = prune_extract_jobs(extract_jobs, now, jobs_keep_per_file,
                                          jobs_failed_days)
    /\ files' = prune_files(files, now, files_tombstone_days)
    /\ mirror_fs' = clean_orphans_fs(mirror_fs, mirror_docs, files')
    /\ mirror_docs' = clean_orphans_docs(mirror_docs, files')
    /\ mirror_chunks' = clean_orphans_chunks(mirror_chunks, mirror_docs, files')
    /\ UNCHANGED <<now, subs, queue, rx, topicLock, pc, cur, calls, persistErrs,
                   received, fullAtCall>>
    /\ UNCHANGED <<disk, reqQ, dpc, jobq, wpc, wjob, published, requested,
                   skips, outcome, writes, mpc, mjob, mres, mlog, interrupted,
                   handles, scanVars, libVars>>

(***************************************************************************)
(* The index lock (src/util/lock.rs, src/main.rs)                          *)
(***************************************************************************)
\* the processes running a mutating command (index, watch, oneshot)
Procs == {"p1", "p2"}

\* the mutant: the file is opened with create(true), existing or not
create_always(old) == [ok |-> TRUE, file |-> File(<<>>)]

\* OpenOptions::new().write(true).create_new(true).open: O_CREAT|O_EXCL, it
\* fails with AlreadyExists when the file is there, else creates it empty
create_new(old) ==
    IF old.exists THEN [ok |-> FALSE, file |-> old]
    ELSE [ok |-> TRUE, file |-> File(<<>>)]

offLock == <<now, busVars, extractVars, mirrorVars, scanVars, searchVars,
            chunkIdVars,
    pageVars,
    idemVars,
    watchVars,
    recVars,
    writeVars,
    cmdVars>>

\* Lockfile::acquire up to the open: create_dir_all, then create_new
acquire_open(p) ==
    /\ lpc[p] = "idle"
    /\ acquires < MaxAcquires
    /\ acquires' = acquires + 1
    /\ \/ /\ lres' = [lres EXCEPT ![p] = "io"]
          /\ UNCHANGED <<lock_file, lpc>>
       \/ LET o == create_new(lock_file)
          IN  /\ lock_file' = o.file
              /\ IF o.ok
                 THEN /\ lpc' = [lpc EXCEPT ![p] = "opened"]
                      /\ lres' = [lres EXCEPT ![p] = "none"]
                 ELSE /\ lres' = [lres EXCEPT ![p] = "exists"]
                      /\ UNCHANGED lpc
    /\ UNCHANGED <<offLock, stale, drops>>

\* Lockfile::acquire after the open: writeln!(f, pid); on an error the file
\* stays and no Lockfile is built
acquire_write(p) ==
    /\ lpc[p] = "opened"
    /\ \/ /\ lock_file' = File(Append(lock_file.data, p))
          /\ lpc' = [lpc EXCEPT ![p] = "held"]
          /\ lres' = [lres EXCEPT ![p] = "ok"]
          /\ UNCHANGED stale
       \/ /\ lpc' = [lpc EXCEPT ![p] = "idle"]
          /\ lres' = [lres EXCEPT ![p] = "io"]
          /\ stale' = TRUE
          /\ UNCHANGED lock_file
    /\ UNCHANGED <<offLock, acquires, drops>>

\* main returns, with Ok or through a ? with an error: _lock is dropped and
\* Drop removes the file
command_return(p) ==
    /\ lpc[p] = "held"
    /\ lock_file' = remove_file(lock_file)
    /\ lpc' = [lpc EXCEPT ![p] = "idle"]
    /\ \E r \in {"returned_ok", "returned_err"} : lres' = [lres EXCEPT ![p] = r]
    /\ drops' = drops + 1
    /\ UNCHANGED <<offLock, stale, acquires>>


(***************************************************************************)
(* main: the commands and the index lock (src/main.rs)                     *)
(***************************************************************************)
\* the commands that scan: index and oneshot take the lock, query does not
\* (watch takes it as index does)
Commands == {"index", "oneshot", "query"}

offCmd == <<now, busVars, extractVars, mirrorVars, scanVars, searchVars, chunkIdVars,
            pageVars, idemVars, watchVars, recVars, writeVars>>

\* main starts with a command: the services are spawned, then the match on
\* the command that takes the lock
main_start(p, c) ==
    /\ main_pc[p] = "idle"
    /\ lpc[p] = "idle"
    /\ cmd' = [cmd EXCEPT ![p] = c]
    /\ main_pc' = [main_pc EXCEPT ![p] = IF c = "query" THEN "run" ELSE "lock"]
    /\ lres' = [lres EXCEPT ![p] = "none"]
    /\ UNCHANGED <<offCmd, lock_file, lpc, stale, acquires, drops, index_exists, pending>>

\* Lockfile::acquire(lock_path)? of index, watch and oneshot
main_acquire(p) ==
    /\ main_pc[p] = "lock"
    /\ lres[p] = "none"
    /\ acquire_open(p) \/ acquire_write(p)

\* Lockfile::acquire returned an error: main returns it
main_abort(p) ==
    /\ main_pc[p] = "lock"
    /\ lpc[p] = "idle"
    /\ lres[p] \in {"exists", "io"}
    /\ main_pc' = [main_pc EXCEPT ![p] = "idle"]
    /\ UNCHANGED <<offCmd, lockVars, cmd, index_exists, pending>>

\* fs::cold_scan called by main: by index and oneshot once the lock is taken,
\* by query when cfg.db or cfg.tantivy_index does not exist; the SyncDelta
\* goes to the metadata service of the process
main_cold_scan(p) ==
    /\ \/ main_pc[p] = "lock" /\ lpc[p] = "held"
       \/ main_pc[p] = "run" /\ cmd[p] = "query" /\ ~index_exists
    /\ main_pc' = [main_pc EXCEPT ![p] = "scanned"]
    /\ pending' = [pending EXCEPT ![p] = 1]
    /\ UNCHANGED <<offCmd, lockVars, cmd, index_exists>>

\* the metadata service of the process handles the SyncDelta: it writes the
\* files table
service_write(p) ==
    /\ main_pc[p] # "idle"
    /\ pending[p] > 0
    /\ pending' = [pending EXCEPT ![p] = 0]
    /\ UNCHANGED <<offCmd, lockVars, cmd, main_pc, index_exists>>

\* index::reindex_all_with_retry after the scan: the index is written
main_reindex(p) ==
    /\ main_pc[p] = "scanned"
    /\ main_pc' = [main_pc EXCEPT ![p] = "indexed"]
    /\ index_exists' = TRUE
    /\ UNCHANGED <<offCmd, lockVars, cmd, pending>>

\* main returns (query after its search, with or without the automatic
\* index creation): _lock is dropped when there is one, the process and
\* its services end
main_return(p) ==
    /\ \/ main_pc[p] = "indexed"
       \/ main_pc[p] = "run" /\ cmd[p] = "query" /\ index_exists
    /\ main_pc' = [main_pc EXCEPT ![p] = "idle"]
    /\ pending' = [pending EXCEPT ![p] = 0]
    /\ IF lpc[p] = "held"
       THEN /\ lock_file' = remove_file(lock_file)
            /\ lpc' = [lpc EXCEPT ![p] = "idle"]
            /\ drops' = drops + 1
       ELSE UNCHANGED <<lock_file, lpc, drops>>
    /\ UNCHANGED <<offCmd, lres, stale, acquires, cmd, index_exists>>

\* no command runs, and there is no index yet
InitCmd ==
    /\ cmd = [p \in Procs |-> "none"]
    /\ main_pc = [p \in Procs |-> "idle"]
    /\ index_exists = FALSE
    /\ pending = [p \in Procs |-> 0]

(***************************************************************************)
(* Hybrid search: reciprocal rank fusion (src/search/mod.rs)               *)
(***************************************************************************)
k_rrf == 60

ChunkIds == {"c1", "c2", "c3"}

\* the result lists of keyword_chunks and semantic_chunks: hits of distinct
\* chunks, best first
HitLists ==
    {l \in UNION {[1..n -> ChunkIds] : n \in 0..MaxHits} :
        \A i, j \in 1..Len(l) : l[i] = l[j] => i = j}

\* an f32 score, kept as the exact fraction n / d
zero == [n |-> 0, d |-> 1]
add(a, b) == [n |-> a.n * b.d + b.n * a.d, d |-> a.d * b.d]
less(a, b) == a.n * b.d < b.n * a.d
same(a, b) == a.n * b.d = b.n * a.d

\* the mutant: ranks counted from 1
contrib_from_one(rank) == [n |-> 1, d |-> k_rrf + (rank + 1) + 1]

\* 1.0 / (k_rrf + rank as f32 + 1.0), rank from enumerate()
contrib(rank) == [n |-> 1, d |-> k_rrf + rank + 1]

\* one for loop of rrf over list[i..]: entry().and_modify(+= contrib)
\* .or_insert(contrib); an absent key is kept as zero
\* (no contribution is 0)
RECURSIVE accumulate(_, _, _)
accumulate(scores, list, i) ==
    IF i > Len(list) THEN scores
    ELSE accumulate([scores EXCEPT ![list[i]] =
                        IF @ = zero THEN contrib(i - 1) ELSE add(@, contrib(i - 1))],
                    list, i + 1)

\* the HashMap after both loops
fused(bm25, ann) ==
    accumulate(accumulate([c \in ChunkIds |-> zero], bm25, 1), ann, 1)

\* into_iter().collect() followed by sort_by(b.score.total_cmp(a.score)):
\* the entries in an order in which no hit precedes one of higher score;
\* hits of equal score keep the HashMap's iteration order, which is any
sorted_hits(scores) ==
    LET keys == {c \in ChunkIds : scores[c] # zero}
    IN  {[i \in 1..Cardinality(keys) |-> [chunk_id |-> o[i], score |-> scores[o[i]]]] :
            o \in {q \in [1..Cardinality(keys) -> keys] :
                     /\ \A i, j \in DOMAIN q : q[i] = q[j] => i = j
                     /\ \A i, j \in DOMAIN q :
                           i < j => ~less(scores[q[i]], scores[q[j]])}}

\* Vec::truncate
truncate(v, len) == IF len < Len(v) THEN SubSeq(v, 1, len) ELSE v

NoRrfIn == [bm25 |-> <<>>, ann |-> <<>>, top_k |-> 0, called |-> FALSE]
NoRrfOut == [hits |-> <<>>, returned |-> FALSE]

offSearch == <<now, busVars, extractVars, mirrorVars, scanVars, lockVars,
              chunkIdVars,
    pageVars,
    idemVars,
    watchVars,
    recVars,
    writeVars,
    cmdVars>>

\* hybrid_chunks: keyword_chunks and semantic_chunks have returned
hybrid_chunks(bm25, ann, top_k) ==
    /\ rrf_in' = [bm25 |-> bm25, ann |-> ann, top_k |-> top_k, called |-> TRUE]
    /\ rrf_out' = NoRrfOut
    /\ UNCHANGED offSearch

\* rrf(&bm25, &ann, top_k)
rrf ==
    /\ rrf_in.called
    /\ ~rrf_out.returned
    /\ \E out \in sorted_hits(fused(rrf_in.bm25, rrf_in.ann)) :
          rrf_out' = [hits |-> truncate(out, rrf_in.top_k), returned |-> TRUE]
    /\ UNCHANGED <<offSearch, rrf_in>>

(***************************************************************************)
(* Chunk identity (src/mirror/mod.rs)                                      *)
(***************************************************************************)
\* the chunk texts tried: words, blanks and the two line-ending characters
TextChars == {"x", " ", "\r", "\n"}
Texts == UNION {[1..n -> TextChars] : n \in 0..MaxText}

NoCidIn == [file_uid |-> "f0", a |-> <<>>, b |-> <<>>, called |-> FALSE]
NoCidOut == [a |-> <<>>, b |-> <<>>, returned |-> FALSE]

offChunkId == <<now, busVars, extractVars, mirrorVars, scanVars, lockVars, searchVars,
    pageVars,
    idemVars,
    watchVars,
    recVars,
    writeVars,
    cmdVars>>

\* two chunks of the same file, content, page and span, of texts a and b
chunk_texts(file_uid, a, b) ==
    /\ ~cid_in.called
    /\ cid_in' = [file_uid |-> file_uid, a |-> a, b |-> b, called |-> TRUE]
    /\ cid_out' = NoCidOut
    /\ UNCHANGED offChunkId

\* make_chunk_id called for both
make_chunk_ids ==
    /\ cid_in.called
    /\ ~cid_out.returned
    /\ cid_out' = [a |-> make_chunk_id(cid_in.file_uid, "h1", 1, 0, MaxText, cid_in.a),
                   b |-> make_chunk_id(cid_in.file_uid, "h1", 1, 0, MaxText, cid_in.b),
                   returned |-> TRUE]
    /\ UNCHANGED <<offChunkId, cid_in>>

(***************************************************************************)
(* At-least-once delivery to the metadata service (src/metadata.rs)        *)
(***************************************************************************)
\* the SyncDelta the service handled last, to the end, is delivered to it
\* once more
redeliver ==
    /\ redelivered = 0
    /\ meta_pc = "recv"
    /\ meta_orig.seq > 0
    /\ meta_delta.seq = meta_orig.seq
    /\ Len(metaQ) < source_fs
    /\ metaQ' = Append(metaQ, meta_orig)
    /\ redelivered' = meta_orig.seq
    /\ UNCHANGED <<now, busVars, extractVars, mirrorVars, fs_state, meta_pc, meta_delta,
                   meta_orig, meta_cur, ops_log, lastRename, fsops, scans, stop,
                   lockVars, searchVars, chunkIdVars, pageVars, watchVars, recVars, writeVars, cmdVars>>

(***************************************************************************)
(* Watch mode (src/fs/mod.rs), time in tenths of a second                  *)
(***************************************************************************)
\* Duration::from_millis(300), and the timeout of recv_timeout
debounce == 3
recv_wait == 1

\* last_event = None
NoEvent == -1

\* times beyond the debounce are not told apart
Aged(t) == IF t = NoEvent THEN NoEvent ELSE IF t > debounce THEN debounce + 1 ELSE t + 1

\* the check made with any last_event
due_always(age) == age # NoEvent

\* if let Some(t) = last_event { if t.elapsed() > debounce
due(age) == age # NoEvent /\ age > debounce

offWatch == <<now, busVars, extractVars, mirrorVars, scanVars, lockVars, searchVars, chunkIdVars, pageVars, idemVars,
    recVars,
    writeVars,
    cmdVars>>

\* the watcher callback: tx.send(res) on the unbounded channel
watch_notify ==
    /\ notified < MaxNotify
    /\ notified' = notified + 1
    /\ chan' = chan + 1
    /\ since_arrival' = 0
    /\ burst' = burst + 1
    /\ UNCHANGED <<offWatch, watch_pc, last_event, waited, covered>>

\* a tenth of a second passes; a waiting recv_timeout returns as soon as it
\* can, so time passes only while it has nothing to return
watch_tick ==
    /\ watch_pc = "wait" => chan = 0 /\ waited < recv_wait
    /\ last_event' = Aged(last_event)
    /\ since_arrival' = Aged(since_arrival)
    /\ waited' = IF watch_pc = "wait" THEN waited + 1 ELSE waited
    /\ UNCHANGED <<offWatch, watch_pc, chan, burst, covered, notified>>

\* one iteration of the loop: recv_timeout returns Ok(Ok(_event)); the
\* debounce has not elapsed for the last_event just set
watch_recv ==
    /\ watch_pc = "wait"
    /\ chan > 0
    /\ chan' = chan - 1
    /\ last_event' = 0
    /\ waited' = 0
    /\ UNCHANGED <<offWatch, watch_pc, since_arrival, burst, covered, notified>>

\* one iteration of the loop: recv_timeout returns Timeout; cold_scan is
\* called when the debounce has elapsed
watch_timeout ==
    /\ watch_pc = "wait"
    /\ chan = 0
    /\ waited = recv_wait
    /\ waited' = 0
    /\ IF due(last_event)
       THEN /\ watch_pc' = "scan"
            /\ covered' = burst
            /\ burst' = 0
       ELSE UNCHANGED <<watch_pc, covered, burst>>
    /\ UNCHANGED <<offWatch, chan, last_event, since_arrival, notified>>

\* cold_scan returns: Ok, and last_event = None, or an error, which watch
\* returns
watch_scanned ==
    /\ watch_pc = "scan"
    /\ \/ /\ watch_pc' = "wait"
          /\ last_event' = NoEvent
       \/ /\ watch_pc' = "returned"
          /\ UNCHANGED last_event
    /\ UNCHANGED <<offWatch, chan, waited, since_arrival, burst, covered, notified>>

(***************************************************************************)
(* Page splitting (src/extract/mod.rs)                                     *)
(***************************************************************************)
\* the extracted texts tried: a letter, a two-byte letter and the form feed
PageChars == {"x", Wide, FF}
PageTexts == UNION {[1..n -> PageChars] : n \in 0..MaxPageText}

offPages == <<now, busVars, extractVars, mirrorVars, scanVars, lockVars, searchVars, chunkIdVars,
    idemVars,
    watchVars,
    recVars,
    writeVars,
    cmdVars>>

\* extract_pages from the text on: let pages = split_pages(&text)
extract_pages(text) ==
    /\ sp_in' = text
    /\ sp_out' = split_pages(text)
    /\ UNCHANGED offPages

(***************************************************************************)
(* Reconciler (src/reconcile.rs)                                           *)
(***************************************************************************)
offRecon == <<now, busRest, scanVars, lockVars, searchVars, chunkIdVars, pageVars, idemVars,
              watchVars, writeVars, cmdVars>>

\* the pool's state but its queue and the count of requests
poolRest == <<files, disk, dpc, jobq, wpc, wjob, extract_jobs, published, skips, outcome,
              writes>>

\* the mirror builder's own state
builderVars == <<mpc, mjob, mres, mlog, interrupted, handles>>

\* SELECT 1 FROM mirror_docs WHERE file_uid=?1
doc_exists(uid) == \E d \in mirror_docs : d.file_uid = uid

\* dir.join("meta.json").exists() && dir.join("chunks.jsonl").exists()
disk_exists(dir) == mirror_fs[dir].meta.exists /\ mirror_fs[dir].chunks.exists

\* the mutant: the directory is not looked at
mirror_unlisted(r) == ~doc_exists(r.inode_hint)

\* the test of the first pass for one row of files
mirror_missing(r) ==
    ~doc_exists(r.inode_hint) \/ ~disk_exists(relativize(r.realpath, roots))

\* SELECT status FROM files WHERE inode_hint=?1, optional(): the status of a
\* row of that file_uid (any of them when there are several), or none
statuses_of(uid) ==
    IF rows_of(uid) = {} THEN {"none"} ELSE {r.status : r \in rows_of(uid)}

\* the mutant: remove_dir_all is left out
keep_dir(tree, dir) == tree

\* fs::remove_dir_all(dir), its result ignored
remove_dir_all(tree, dir) == [tree EXCEPT ![dir] = EmptyDir]

\* run: the catalog is opened and the first statement prepared
rec_begin ==
    /\ rpc = "idle"
    /\ recs < MaxRuns
    /\ recs' = recs + 1
    /\ rpc' = "missing"
    /\ rres' = "running"
    /\ r_rows' = {r \in files : r.status = "active"}
    /\ r_req' = [u \in Uids |-> 0]
    /\ r_del' = [u \in Uids |-> 0]
    /\ no_audit
    /\ UNCHANGED <<offRecon, extractVars, mirrorVars, r_docs, r_seen>>

\* first pass, one row: ExtractionRequested is published when the row has no
\* mirror_docs row or one of the two files is absent
rec_missing ==
    /\ rpc = "missing"
    /\ \E r \in r_rows :
        /\ r_rows' = r_rows \ {r}
        /\ IF mirror_missing(r)
           THEN /\ bus_room
                /\ reqQ' = Append(reqQ, Ev("extraction_requested", r.inode_hint))
                /\ requested' = [requested EXCEPT ![r.inode_hint] = @ + 1]
                /\ r_req' = [r_req EXCEPT ![r.inode_hint] = @ + 1]
                /\ \/ /\ audit_ok("source.fs", "reconciler")
                      /\ UNCHANGED <<rpc, rres>>
                   \/ /\ audit_err
                      /\ rpc' = "idle"
                      /\ rres' = "err"
           ELSE /\ no_audit
                /\ UNCHANGED <<reqQ, requested, r_req, rpc, rres>>
    /\ UNCHANGED <<offRecon, poolRest, mirrorVars, r_docs, r_del, r_seen, recs>>

\* the first pass is over: the second statement is prepared
rec_second ==
    /\ rpc = "missing"
    /\ r_rows = {}
    /\ rpc' = "orphans"
    /\ r_docs' = mirror_docs
    /\ r_seen' = {}
    /\ no_audit
    /\ UNCHANGED <<offRecon, extractVars, mirrorVars, rres, r_rows, r_req, r_del, recs>>

\* second pass, one row of mirror_docs: when the status of its file is not
\* active the directory and the rows are removed and MirrorDocDeleted published
rec_orphan ==
    /\ rpc = "orphans"
    /\ \E d \in r_docs : \E st \in statuses_of(d.file_uid) :
        /\ r_docs' = r_docs \ {d}
        /\ r_seen' = r_seen \cup {d}
        /\ IF st # "active"
           THEN /\ mirror_fs' = remove_dir_all(mirror_fs, d.path)
                /\ mirror_docs' = {o \in mirror_docs : o.file_uid # d.file_uid}
                /\ mirror_chunks' = delete_chunks(mirror_chunks, d.file_uid)
                /\ r_del' = [r_del EXCEPT ![d.file_uid] = @ + 1]
                /\ \/ /\ audit_ok("mirror.text", "reconciler")
                      /\ UNCHANGED <<rpc, rres>>
                   \/ /\ audit_err
                      /\ rpc' = "idle"
                      /\ rres' = "err"
           ELSE /\ no_audit
                /\ UNCHANGED <<mirror_fs, mirror_docs, mirror_chunks, r_del, rpc, rres>>
    /\ UNCHANGED <<offRecon, extractVars, builderVars, r_rows, r_req, recs>>

\* run returns Ok(())
rec_end ==
    /\ rpc = "orphans"
    /\ r_docs = {}
    /\ rpc' = "idle"
    /\ rres' = "ok"
    /\ no_audit
    /\ UNCHANGED <<offRecon, extractVars, mirrorVars, r_rows, r_docs, r_req, r_del, r_seen, recs>>

RECURSIVE total(_, _)
total(f, S) ==
    IF S = {} THEN 0
    ELSE LET k == CHOOSE k \in S : TRUE IN f[k] + total(f, S \ {k})

\* ExtractionCompleted events published so far
completions == total(published, {k \in DOMAIN published : k[3] = "extraction_completed"})

\* handle_extraction has returned an error, which ends mirror::run
builder_ended == mres \in {"err", "err_lookup", "err_mkdir"}

\* mirror::run: an ExtractionCompleted event that was published is received
\* and handle_extraction called with it
mirror_run ==
    /\ ~builder_ended
    /\ handles < completions
    /\ \E u \in Uids : \E h \in Contents :
          /\ published[<<u, h, "extraction_completed">>] > 0
          /\ handle_begin(u, h)

(***************************************************************************)
(* Specifications                                                          *)
(***************************************************************************)
InitBus ==
    /\ now = 0
    /\ subs = [tp \in Topics |-> <<>>]
    /\ queue = [tp \in Topics |-> [t \in Threads |-> <<>>]]
    /\ rx = [tp \in Topics |-> [t \in Threads |-> "none"]]
    /\ topicLock = [tp \in Topics |-> NoThread]
    /\ pc = [t \in Threads |-> "idle"]
    /\ cur = [t \in Threads |-> NoEnv]
    /\ events = {}
    /\ calls = 0
    /\ persistErrs = 0
    /\ pruned = 0
    /\ received = [tp \in Topics |-> [t \in Threads |-> <<>>]]
    /\ fullAtCall = [t \in Threads |-> {}]

\* the pool is idle; the catalog knows f1 at path a, as in tests::dedup_jobs
InitPool ==
    /\ files = {FileRow(1, PathA, "f1", "active")}
    /\ disk = [p \in Paths |-> IF p = PathA THEN DiskFile("f1", "h1") ELSE NoFile]
    /\ reqQ = <<>>
    /\ dpc = "recv"
    /\ jobq = <<>>
    /\ wpc = [w \in Workers |-> "idle"]
    /\ wjob = [w \in Workers |-> NoJob]
    /\ extract_jobs = {}
    /\ published = [k \in Uids \X HashCols \X Kinds |-> 0]
    /\ requested = [u \in Uids |-> 0]
    /\ skips = [u \in Uids |-> 0]
    /\ outcome = [u \in Uids |-> "none"]
    /\ writes = 0

InitMirror ==
    /\ mirror_fs = [d \in Dirs |-> EmptyDir]
    /\ mirror_docs = {}
    /\ mirror_chunks = {}
    /\ mpc = "idle"
    /\ mjob = NoMJob
    /\ mres = "none"
    /\ mlog = <<>>
    /\ interrupted = {}
    /\ handles = 0

\* nothing scanned yet (FsState::default), the metadata service waiting
\* the scanner and the metadata service, the service at pc0
InitScanAt(pc0) ==
    /\ fs_state = [u \in Uids |-> NoInfo]
    /\ metaQ = <<>>
    /\ meta_pc = pc0
    /\ meta_delta = NoDelta
    /\ meta_orig = NoDelta
    /\ meta_cur = NoMeta
    /\ ops_log = <<>>
    /\ lastRename = NoRename
    /\ fsops = 0
    /\ scans = 0
    /\ stop = FALSE

\* the metadata service has subscribed and waits for its first event
InitScan == InitScanAt("recv")

\* reconcile::run has not been called
InitRecon ==
    /\ rpc = "idle"
    /\ rres = "none"
    /\ r_rows = {}
    /\ r_docs = {}
    /\ r_req = [u \in Uids |-> 0]
    /\ r_del = [u \in Uids |-> 0]
    /\ r_seen = {}
    /\ recs = 0

\* no lock file, no command running
InitLock ==
    /\ lock_file = Absent
    /\ lpc = [p \in Procs |-> "idle"]
    /\ lres = [p \in Procs |-> "none"]
    /\ stale = FALSE
    /\ acquires = 0
    /\ drops = 0

\* no query made yet
InitSearch ==
    /\ rrf_in = NoRrfIn
    /\ rrf_out = NoRrfOut

\* make_chunk_id not called yet
InitChunkId ==
    /\ cid_in = NoCidIn
    /\ cid_out = NoCidOut

\* no text extracted yet: the pages of the empty text
InitPages ==
    /\ sp_in = <<>>
    /\ sp_out = split_pages(<<>>)

\* watch after its first cold_scan, the watcher registered, nothing notified
InitWatch ==
    /\ watch_pc = "wait"
    /\ chan = 0
    /\ last_event = NoEvent
    /\ waited = 0
    /\ since_arrival = NoEvent
    /\ burst = 0
    /\ covered = 0
    /\ notified = 0

(***************************************************************************)
(* The chunking loops of write_chunks_impl (src/mirror/mod.rs)             *)
(***************************************************************************)
offWrite == <<now, busVars, extractVars, mirrorVars, scanVars, lockVars, searchVars,
    chunkIdVars, pageVars, idemVars, watchVars, recVars,
    cmdVars>>

\* the page texts tried: empty, blank, short, exactly TOKENS_PER_CHUNK runs of
\* whitespace, and more than that with runs of several characters
WritePageTexts ==
    {<<>>, <<" ", "\n">>, <<"x", " ", "x">>, LongText,
     <<" ", "\t">> \o LongText \o <<" ", " ", "x", "\n">>}

\* pages as split_pages numbers them: page_no 1, 2, ...
WritePages ==
    UNION {{[k \in 1..n |-> [page_no |-> k, text |-> t[k]]] : t \in [1..n -> WritePageTexts]} :
             n \in 1..MaxChunkPages}

\* write_chunks_impl is called: order = 0, the for loop at the first page
write_chunks_impl(pages) ==
    /\ wc_pc = "idle"
    /\ wc_pages' = pages
    /\ wc_p' = 1
    /\ wc_idx' = 0
    /\ wc_order' = 0
    /\ wc_out' = <<>>
    /\ wc_pc' = "loop"
    /\ UNCHANGED offWrite

\* one turn of the while loop that writes a chunk: chars[idx..end] with the
\* span idx..end of the page and the current order; then order += 1, idx = end
wc_chunk ==
    /\ wc_pc = "loop"
    /\ wc_p <= Len(wc_pages)
    /\ wc_idx < Len(wc_pages[wc_p].text)
    /\ LET page == wc_pages[wc_p]
           end == chunk_end(page.text, wc_idx)
       IN  /\ end # wc_idx
           /\ wc_out' = Append(wc_out, [order |-> wc_order, page |-> page.page_no,
                                        start_char |-> wc_idx, end_char |-> end,
                                        text |-> SubSeq(page.text, wc_idx + 1, end)])
           /\ wc_order' = wc_order + 1
           /\ wc_idx' = end
    /\ UNCHANGED <<offWrite, wc_pages, wc_p, wc_pc>>

\* the while loop ends (idx reached chars.len(), or end == idx breaks out) and
\* the for loop takes the next page with idx = 0
wc_next_page ==
    /\ wc_pc = "loop"
    /\ wc_p <= Len(wc_pages)
    /\ \/ wc_idx >= Len(wc_pages[wc_p].text)
       \/ chunk_end(wc_pages[wc_p].text, wc_idx) = wc_idx
    /\ wc_p' = wc_p + 1
    /\ wc_idx' = 0
    /\ UNCHANGED <<offWrite, wc_pages, wc_order, wc_out, wc_pc>>

\* the for loop is over: write_chunks_impl leaves its loops
wc_done ==
    /\ wc_pc = "loop"
    /\ wc_p > Len(wc_pages)
    /\ wc_pc' = "done"
    /\ UNCHANGED <<offWrite, wc_pages, wc_p, wc_idx, wc_order, wc_out>>

InitWrite ==
    /\ wc_pages = <<>>
    /\ wc_p = 0
    /\ wc_idx = 0
    /\ wc_order = 0
    /\ wc_out = <<>>
    /\ wc_pc = "idle"

\* all but the scanner and the metadata service
InitRest ==
    /\ InitBus /\ InitPool /\ InitMirror /\ InitLock /\ InitSearch
    /\ InitChunkId /\ InitPages /\ redelivered = 0 /\ InitWatch /\ InitRecon /\ InitWrite /\ InitCmd

Init == InitRest /\ InitScan

\* main has just spawned the thread of metadata::run
InitMain == InitRest /\ InitScanAt("spawned")

Subscribe == \E tp \in Topics : \E t \in Subscribers(tp) : subscribe(t, tp)
DropReceiver == \E tp \in Topics : \E t \in Subscribers(tp) : drop_receiver(t, tp)
Recv == \E tp \in Topics : \E t \in Subscribers(tp) : recv(t, tp)
PublishBegin == \E tp \in Topics : \E t \in Publishers(tp) : publish_begin(t, tp)
PublishSend == \E t \in Threads : publish_send(t)
PublishUnlock == \E t \in Threads : publish_unlock(t)
LogEvent == \E t \in Threads : log_event(t)

NextBus ==
    \/ Subscribe
    \/ DropReceiver
    \/ Recv
    \/ PublishBegin
    \/ PublishSend
    \/ PublishUnlock
    \/ LogEvent

SpecBus == Init /\ [][NextBus]_vars

\* the bus with the clock and retention runs; the services keep their
\* receivers, as metadata::run and mirror::run do until they are stopped
NextAudit ==
    \/ Subscribe
    \/ Recv
    \/ PublishBegin
    \/ PublishSend
    \/ PublishUnlock
    \/ LogEvent
    \/ Tick
    \/ retention_run

SpecAudit == Init /\ [][NextAudit]_vars

Request == \E u \in Uids : request(u)
WTake == \E w \in Workers : w_take(w)
WInsert == \E w \in Workers : w_insert(w)
WExtractOk == \E w \in Workers : w_extract_ok(w)
WFinish == \E w \in Workers : w_finish(w)
WExtractErr == \E w \in Workers : w_extract_err(w)
WPubFail == \E w \in Workers : w_pubfail(w)
WriteContent == write_content(PathA)

\* the extraction pool alone
NextPool ==
    \/ Request
    \/ d_recv
    \/ d_send
    \/ WTake
    \/ WInsert
    \/ WExtractOk
    \/ WFinish
    \/ WExtractErr
    \/ WPubFail
    \/ WriteContent

SpecPool == Init /\ [][NextPool]_vars

\* the steps of run_pool's loop
dispatcher_run == d_recv \/ d_send

\* the steps of one worker thread
worker_run(w) ==
    \/ w_take(w)
    \/ w_insert(w)
    \/ w_extract_ok(w)
    \/ w_finish(w)
    \/ w_extract_err(w)
    \/ w_pubfail(w)

\* requests published as fast as the pool's queue takes them
Burst == \E u \in Uids : request_upto(u, MaxBurst)

NextPoolLive ==
    \/ Burst
    \/ dispatcher_run
    \/ \E w \in Workers : worker_run(w)

\* the extraction pool, each of its threads running while it has a step
SpecPoolLive ==
    /\ Init
    /\ [][NextPoolLive]_vars
    /\ WF_vars(dispatcher_run)
    /\ \A w \in Workers : WF_vars(worker_run(w))

\* the extraction pool with the clock and retention runs
NextExtract ==
    \/ NextPool
    \/ Tick
    \/ retention_run

SpecExtract == Init /\ [][NextExtract]_vars

HandleBegin == \E u \in Uids : \E h \in Contents : handle_begin(u, h)

\* the mirror builder, handle_extraction called with any event
NextMirror ==
    \/ HandleBegin
    \/ m_write_meta
    \/ m_upsert_doc
    \/ m_create_tmp
    \/ m_chunk
    \/ m_close
    \/ m_publish_doc
    \/ m_rollback
    \/ m_crash

SpecMirror == Init /\ [][NextMirror]_vars

\* the mirror builder with the clock running between and during its calls
NextRedeliver ==
    \/ NextMirror
    \/ Tick

SpecRedeliver == Init /\ [][NextRedeliver]_vars

FsCreate == \E p \in Paths : \E u \in Uids : fs_create(p, u)
FsRename == \E p, q \in Paths : fs_rename(p, q)
FsDelete == \E p \in Paths : fs_delete(p)
FsWrite == \E p \in Paths : write_content(p)

\* the source tree, the scanner and the metadata service
NextMeta ==
    \/ FsCreate
    \/ FsRename
    \/ FsDelete
    \/ FsWrite
    \/ cold_scan
    \/ meta_recv
    \/ meta_added
    \/ meta_modified
    \/ meta_publish
    \/ meta_moved
    \/ meta_deleted

SpecMeta == Init /\ [][NextMeta]_vars

\* watch: a scan is started only by an iteration that found the flag unset
watch ==
    /\ ~stop
    /\ cold_scan

\* the metadata service's own steps
MetaRun ==
    \/ meta_recv
    \/ meta_added
    \/ meta_publish
    \/ meta_stop

\* files created in the source tree, the scanner, the metadata service and
\* the stop flag
NextStop ==
    \/ FsCreate
    \/ watch
    \/ MetaRun
    \/ set_stop

\* the thread of the metadata service keeps running while it has a step
SpecStop == Init /\ [][NextStop]_vars /\ WF_vars(MetaRun)

\* files created and deleted in the source tree (none rewritten or renamed),
\* the scanner, the metadata service, the clock and retention runs
NextTomb ==
    \/ FsCreate
    \/ FsDelete
    \/ cold_scan
    \/ meta_recv
    \/ meta_added
    \/ meta_publish
    \/ meta_moved
    \/ meta_deleted
    \/ Tick
    \/ retention_run

SpecTomb == Init /\ [][NextTomb]_vars

AcquireOpen == \E p \in Procs : acquire_open(p)
AcquireWrite == \E p \in Procs : acquire_write(p)
CommandReturn == \E p \in Procs : command_return(p)

\* two processes running mutating commands
NextLock ==
    \/ AcquireOpen
    \/ AcquireWrite
    \/ CommandReturn

SpecLock == Init /\ [][NextLock]_vars

HybridChunks ==
    \E bm25, ann \in HitLists : \E top_k \in 0..MaxTopK : hybrid_chunks(bm25, ann, top_k)

\* hybrid queries, one after another
NextSearch ==
    \/ HybridChunks
    \/ rrf

SpecSearch == Init /\ [][NextSearch]_vars

ChunkTexts ==
    ~cid_in.called /\ \E u \in Uids : \E a, b \in Texts : chunk_texts(u, a, b)

\* make_chunk_id on pairs of texts
NextChunkId ==
    \/ ChunkTexts
    \/ make_chunk_ids

SpecChunkId == Init /\ [][NextChunkId]_vars

\* the scanner, the metadata service, the extraction pool, and one SyncDelta
\* delivered twice
NextIdem ==
    \/ cold_scan
    \/ meta_recv
    \/ meta_added
    \/ meta_publish
    \/ redeliver
    \/ Request
    \/ d_recv
    \/ d_send
    \/ WTake
    \/ WInsert
    \/ WExtractOk
    \/ WFinish

SpecIdem == Init /\ [][NextIdem]_vars

\* the loop of watch, the notifications and the passing of time
NextWatch ==
    \/ watch_notify
    \/ watch_tick
    \/ watch_recv
    \/ watch_timeout
    \/ watch_scanned

\* the thread of watch runs, time passes, and cold_scan returns
SpecWatch ==
    /\ Init /\ [][NextWatch]_vars
    /\ WF_vars(watch_recv \/ watch_timeout)
    /\ WF_vars(watch_tick)
    /\ WF_vars(watch_scanned)

ExtractPages == \E text \in PageTexts : extract_pages(text)

\* split_pages on the texts of PageTexts
\* the mirror builder handles its events before the source tree changes
building == recs = 0 /\ fsops = 0 /\ scans = 0 /\ handles <= MaxRecHandles

\* the source tree changes and the metadata service follows while the mirror
\* builder is between two calls
scanning == recs = 0 /\ mpc = "idle" /\ fsops <= MaxRecFsOps

\* reconcile::run is called with no other service inside a call, and the
\* pipeline stays at rest from then on
rec_start == mpc = "idle" /\ meta_pc = "recv" /\ rec_begin

\* the mirror builder, then the source tree, the scanner and the metadata
\* service prepare the catalog and the mirror tree; then the reconciler runs
NextRecon ==
    \/ building /\ handles < MaxRecHandles /\ HandleBegin
    \/ building /\ m_write_meta
    \/ building /\ m_upsert_doc
    \/ building /\ m_create_tmp
    \/ building /\ m_chunk
    \/ building /\ m_close
    \/ building /\ m_publish_doc
    \/ building /\ m_rollback
    \/ building /\ m_crash
    \/ scanning /\ fsops < MaxRecFsOps /\ FsCreate
    \/ scanning /\ fsops < MaxRecFsOps /\ FsDelete
    \/ scanning /\ cold_scan
    \/ scanning /\ meta_recv
    \/ scanning /\ meta_added
    \/ scanning /\ meta_publish
    \/ scanning /\ meta_deleted
    \/ rec_start
    \/ rec_missing
    \/ rec_second
    \/ rec_orphan
    \/ rec_end

SpecRecon == Init /\ [][NextRecon]_vars

\* the services take turns: the mirror builder runs a call while the metadata
\* service waits with an empty queue and the reconciler is not running
at_rest == meta_pc = "recv" /\ metaQ = <<>> /\ rpc = "idle"

\* the source tree changes after a mirror was built
built == mpc = "idle" /\ mres = "ok" /\ rpc = "idle" /\ fsops < MaxRecFsOps

\* the changes are scanned and handled between two calls of the builder
changed == mpc = "idle" /\ rpc = "idle" /\ fsops = MaxRecFsOps

\* a file's mirror is built, the file is deleted and another created, the new
\* file's mirror is built; retention runs between the calls of the other
\* services
NextShare ==
    \/ at_rest /\ HandleBegin
    \/ at_rest /\ m_write_meta
    \/ at_rest /\ m_upsert_doc
    \/ at_rest /\ m_create_tmp
    \/ at_rest /\ m_chunk
    \/ at_rest /\ m_close
    \/ at_rest /\ m_publish_doc
    \/ at_rest /\ m_rollback
    \/ built /\ FsCreate
    \/ built /\ FsDelete
    \/ changed /\ cold_scan
    \/ changed /\ meta_recv
    \/ changed /\ meta_added
    \/ changed /\ meta_publish
    \/ changed /\ at_rest /\ retention_run

SpecShare == Init /\ [][NextShare]_vars

\* the steps of run_pool and of the workers on a file that stays as it is
PoolRun == d_recv \/ d_send \/ WTake \/ WInsert \/ WExtractOk \/ WFinish \/ WPubFail

\* the steps of the mirror builder's thread
BuilderRun ==
    \/ mirror_run
    \/ m_write_meta
    \/ m_upsert_doc
    \/ m_create_tmp
    \/ m_chunk
    \/ m_close
    \/ m_publish_doc
    \/ m_rollback

\* the steps of a reconciler run once it is called
ReconRun == rec_missing \/ rec_second \/ rec_orphan \/ rec_end

\* the process is killed before the reconciler is first called
killed == recs = 0 /\ m_crash

\* the pool and the mirror builder have nothing left to do
settled ==
    /\ reqQ = <<>> /\ dpc = "recv" /\ jobq = <<>>
    /\ \A w \in Workers : wpc[w] = "idle"
    /\ mpc = "idle"
    /\ builder_ended \/ handles >= completions
    /\ rpc = "idle"

\* requests of the metadata service and calls of the reconciler, each made
\* when the work of the one before is over; the extraction pool, and the
\* mirror builder fed by the pool's events
NextRepair ==
    \/ settled /\ Request
    \/ PoolRun
    \/ BuilderRun
    \/ killed
    \/ settled /\ rec_begin
    \/ ReconRun

\* the threads of the pool, of the mirror builder and of the reconciler keep
\* running while they have a step to take
SpecRepair ==
    /\ Init
    /\ [][NextRepair]_vars
    /\ WF_vars(PoolRun)
    /\ WF_vars(BuilderRun)
    /\ WF_vars(ReconRun)

NextPages == ExtractPages

SpecPages == Init /\ [][NextPages]_vars

(***************************************************************************)
(* Event bus: properties                                                   *)
(***************************************************************************)
AllIdle == \A t \in Threads : pc[t] = "idle"

\* the publisher is inside Topic::publish, waiting in send for room in the
\* queue of a live subscriber
Waiting(t) ==
    /\ pc[t] = "send"
    /\ cur[t].idx <= Len(subs[cur[t].topic])
    /\ send_result(cur[t].topic, subs[cur[t].topic][cur[t].idx]) = "blocked"

Increasing(seq) == \A i, j \in DOMAIN seq : i < j => seq[i] < seq[j]

SameRelativeOrder(a, b) ==
    \A x, y \in Range(a) \cap Range(b) :
        (PosOf(a, x) < PosOf(a, y)) <=> (PosOf(b, x) < PosOf(b, y))

\* C3: when publish was called while a live subscriber's queue was full, then
\* once the broadcast is over that subscriber is no longer in the live set.
C3_FullSubscriberDropped ==
    \A t \in Threads :
        pc[t] = "log" => \A s \in fullAtCall[t] : s \notin Range(subs[cur[t].topic])

\* C4: a publish call never waits for a subscriber to make room in its queue.
C4_PublishNeverWaits == \A t \in Threads : ~Waiting(t)

\* C9 (as claimed): whenever no publish call is in progress, the audit table
\* has as many rows as publish calls were made.
C9_RowsEqualCalls == AllIdle => Cardinality(events) = calls

\* C9 (amended): whenever no publish call is in progress, the audit table has
\* as many rows as publish calls returned success, less the rows that
\* retention's prune_events deleted.
C9_RowsEqualLoggedLessPruned ==
    AllIdle => Cardinality(events) = calls - persistErrs - pruned

\* C9 witness: publishes were made, retention deleted a row, a row is left.
C9_Witness == AllIdle /\ calls >= 2 /\ pruned >= 1 /\ events # {}

C15_AuditInReceiveOrder ==
    \A tp \in Topics : \A s \in Subscribers(tp) :
        \A r1, r2 \in {r \in events : r.topic = tp} :
            (/\ r1.id < r2.id
             /\ r1.ticket \in Range(received[tp][s])
             /\ r2.ticket \in Range(received[tp][s]))
                => PosOf(received[tp][s], r1.ticket) < PosOf(received[tp][s], r2.ticket)

(***************************************************************************)
(* Extraction pool properties                                              *)
(***************************************************************************)
Quiescent ==
    /\ reqQ = <<>>
    /\ dpc = "recv"
    /\ jobq = <<>>
    /\ \A w \in Workers : wpc[w] = "idle"

completed(u, h) == published[<<u, h, "extraction_completed">>]
failed(u, h) == published[<<u, h, "extraction_failed">>]

\* C1 (as stated): for every (file_uid, content_hash) pair at most one
\* terminal event, ExtractionCompleted or ExtractionFailed, is ever
\* published, whatever the requests, the workers' interleaving and the
\* retention runs.
C1_AtMostOneTerminal ==
    \A u \in Uids : \A h \in Contents : completed(u, h) + failed(u, h) <= 1

chunk_ids(lines) == [i \in 1..Len(lines) |-> lines[i].chunk_id]

\* C5: when handle_extraction has returned success, meta.json and chunks.jsonl
\* exist in the file's mirror directory, a mirror_docs row exists for the
\* file_uid, and the file_uid has as many mirror_chunks rows as chunks.jsonl
\* has lines.
C5_MirrorComplete ==
    returned("ok") =>
        /\ mirror_fs[mjob.dir].meta.exists
        /\ mirror_fs[mjob.dir].chunks.exists
        /\ \E r \in mirror_docs : r.file_uid = mjob.uid
        /\ Cardinality(chunk_rows(mjob.uid)) = Len(mirror_fs[mjob.dir].chunks.data)

\* a success over an older mirror of the file with another number of chunks
C5_Witness ==
    /\ returned("ok")
    /\ mjob.prev > 0
    /\ mjob.prev # Len(mirror_fs[mjob.dir].chunks.data)
    /\ Len(mirror_fs[mjob.dir].chunks.data) > 0

C7_RetryComplete ==
    (returned("ok") /\ <<mjob.uid, mjob.hash>> \in interrupted) =>
        LET lines == mirror_fs[mjob.dir].chunks.data
            want == chunk_ids(DocChunks[mjob.uid][mjob.hash])
        IN  /\ chunk_ids(lines) = want
            /\ \A i, j \in 1..Len(lines) : lines[i].chunk_id = lines[j].chunk_id => i = j
            /\ {r.chunk_id : r \in chunk_rows(mjob.uid)} = {want[i] : i \in 1..Len(want)}
            /\ Cardinality(chunk_rows(mjob.uid)) = Len(want)
            /\ ~mirror_fs[mjob.dir].chunks_tmp.exists

\* the retry of an interrupted handling of a document of several chunks
C7_Witness ==
    /\ returned("ok")
    /\ <<mjob.uid, mjob.hash>> \in interrupted
    /\ handles = 2
    /\ Len(mirror_fs[mjob.dir].chunks.data) >= 2

mlog_at(type) == {i \in 1..Len(mlog) : mlog[i].type = type}

\* C13: MirrorDocUpserted comes in the order of publication after every
\* MirrorChunkUpserted of the same handling, one having been published per
\* chunk of the document, and at the moment it is published every chunk has
\* its mirror_chunks row and chunks.jsonl is in place with all its lines, the
\* .tmp file renamed away.
C13_DocUpsertedLast ==
    \A i \in mlog_at("mirror_doc_upserted") :
        LET want == chunk_ids(DocChunks[mjob.uid][mjob.hash])
        IN  /\ \A j \in mlog_at("mirror_chunk_upserted") : j < i
            /\ Cardinality(mlog_at("mirror_chunk_upserted")) = Len(want)
            /\ i = Len(mlog) =>
                  /\ {r.chunk_id : r \in chunk_rows(mjob.uid)}
                        = {want[k] : k \in 1..Len(want)}
                  /\ mirror_fs[mjob.dir].chunks.exists
                  /\ chunk_ids(mirror_fs[mjob.dir].chunks.data) = want
                  /\ ~mirror_fs[mjob.dir].chunks_tmp.exists

\* a handling that succeeded for a document of several chunks
C13_Witness ==
    /\ returned("ok")
    /\ Cardinality(mlog_at("mirror_chunk_upserted")) >= 2
    /\ mlog[Len(mlog)].type = "mirror_doc_upserted"

\* C16 (as stated): while a document that had chunks is being rewritten, in
\* every state another catalog connection can read after the mirror_docs row
\* of the file_uid was given the new content_hash by this handling, mirror_chunks holds for
\* the file_uid exactly the chunks of that content_hash: never none, a part,
\* or a mix of versions.
C16_ChunksReplacedAtomically ==
    \A d \in mirror_docs :
        (/\ mpc \in {"create_tmp", "chunk", "publish_doc"}
         /\ mjob.prev > 0
         /\ d.file_uid = mjob.uid
         /\ d.content_hash = mjob.hash)
            => LET want == chunk_ids(DocChunks[d.file_uid][d.content_hash])
               IN  {r.chunk_id : r \in chunk_rows(d.file_uid)}
                     = {want[k] : k \in 1..Len(want)}

\* C17 (as stated): when the event of the last successful handling is
\* handled again with success, meta.json (created_ts included), chunks.jsonl
\* and the file's mirror_docs and mirror_chunks rows are what the first
\* handling left.
C17_RedeliveryIdentical ==
    (returned("ok") /\ mjob.first # NoSnap) => snapshot(mjob.uid, mjob.dir) = mjob.first

(***************************************************************************)
(* Metadata service properties                                             *)
(***************************************************************************)
active_rows(uid) == {r \in files : r.inode_hint = uid /\ r.status = "active"}

\* C8 (as stated): when a file the scanner knew was renamed, a cold scan ran
\* and the metadata service is through with the delta of that scan (no publish
\* having failed on the audit table), the files table has exactly one active
\* row of that file_uid and its realpath is the new path.
C8_RenameOneActiveRow ==
    (lastRename.stage = "handled" /\ lastRename.how # "persist_error") =>
        /\ Cardinality(active_rows(lastRename.uid)) = 1
        /\ \A r \in active_rows(lastRename.uid) : r.realpath = lastRename.to

\* C11 (as stated): no two rows of the files table carry the same file_uid
\* (files.inode_hint), whatever deltas the metadata service has handled,
\* the all-added delta of the first scan after a restart included.
C11_FileUidUnique ==
    \A r1, r2 \in files : r1.inode_hint = r2.inode_hint => r1 = r2

\* C12 (as stated): a step never removes from the files table a row of status
\* deleted whose updated_ts is less than files_tombstone_days old.
C12_TombstoneKept ==
    [][\A r \in files :
          (r.status = "deleted" /\ now < r.updated_ts + files_tombstone_days * DaySecs)
              => \E n \in files' : n.id = r.id]_vars

(***************************************************************************)
(* Index lock properties                                                   *)
(***************************************************************************)
holders == {p \in Procs : lpc[p] = "held"}

\* at most one holder, and the lock file carries the holder's pid alone
OneHolder ==
    /\ Cardinality(holders) <= 1
    /\ \A p \in holders : lock_file = File(<<p>>)

\* a step in which acquire is called while a process holds the lock: the
\* caller gets Exists (or the I/O error of create_dir_all), the file is as
\* before and nobody else is affected
HeldAcquireFails ==
    (acquires' # acquires /\ holders # {}) =>
        /\ lock_file' = lock_file
        /\ lpc' = lpc
        /\ \E q \in Procs \ holders :
              /\ lres'[q] \in {"exists", "io"}
              /\ \A r \in Procs \ {q} : lres'[r] = lres[r]

\* with no holder, no acquire under way and no lock file left behind by a
\* failed write, the lock file is gone
FreeWhenDropped ==
    (\A p \in Procs : lpc[p] = "idle") /\ ~stale => ~lock_file.exists

rrf_score(c) ==
    LET term(l) == IF c \in Range(l) THEN [n |-> 1, d |-> 60 + (PosOf(l, c) - 1) + 1]
                   ELSE zero
    IN  add(term(rrf_in.bm25), term(rrf_in.ann))

\* at most top_k hits, each of a chunk of an input list, no chunk twice,
\* each with its fused score
RrfHits ==
    LET out == rrf_out.hits
    IN  /\ Len(out) <= rrf_in.top_k
        /\ \A i \in DOMAIN out :
              /\ out[i].chunk_id \in Range(rrf_in.bm25) \cup Range(rrf_in.ann)
              /\ same(out[i].score, rrf_score(out[i].chunk_id))
        /\ \A i, j \in DOMAIN out : out[i].chunk_id = out[j].chunk_id => i = j

\* C19 (as stated): rrf returns at most top_k hits, each chunk_id from an
\* input list and at most once, with the sum of 1/(60 + rank + 1) as score,
\* in strictly descending order of score.
C19_RrfStrictlyDescending ==
    rrf_out.returned =>
        /\ RrfHits
        /\ \A i, j \in DOMAIN rrf_out.hits :
              i < j => less(rrf_out.hits[j].score, rrf_out.hits[i].score)

\* C19 (amended): the same, the order being by descending score with hits of
\* equal score in any order: no hit comes before one of higher score.
C19_RrfDescending ==
    rrf_out.returned =>
        /\ RrfHits
        /\ \A i, j \in DOMAIN rrf_out.hits :
              i < j => ~less(rrf_out.hits[i].score, rrf_out.hits[j].score)

\* a fusion of two lists that share a chunk, cut to top_k, with two hits of
\* equal score in the output
C19_Witness ==
    /\ rrf_out.returned
    /\ Range(rrf_in.bm25) \cap Range(rrf_in.ann) # {}
    /\ Len(rrf_out.hits) = rrf_in.top_k
    /\ \E i, j \in DOMAIN rrf_out.hits :
          i < j /\ same(rrf_out.hits[i].score, rrf_out.hits[j].score)

(***************************************************************************)
(* Chunk identity properties                                               *)
(***************************************************************************)
\* a text without its trailing whitespace
body(text) ==
    LET last == {i \in 1..Len(text) : \A j \in i..Len(text) : is_whitespace(text[j])}
    IN  SubSeq(text, 1, Len(text) - Cardinality(last))

\* the line structure of a text: its characters with every line ending,
\* be it CRLF, a lone CR or LF, read as one "eol"
lines_of(text) ==
    LET lf_of_crlf(i) == text[i] = "\n" /\ i > 1 /\ text[i - 1] = "\r"
        kept == {i \in 1..Len(text) : ~lf_of_crlf(i)}
        nth(k) == CHOOSE i \in kept : Cardinality({j \in kept : j < i}) = k - 1
    IN  [k \in 1..Cardinality(kept) |->
            IF text[nth(k)] \in {"\r", "\n"} THEN "eol" ELSE text[nth(k)]]

\* the two texts differ at most in the kind of their line endings and in
\* their trailing whitespace
SameButEndings(a, b) == lines_of(body(a)) = lines_of(body(b))

\* normalize of the specification, as make_chunk_id computes it
normalize(text) == trim_end(unify_newlines(text, 1, Len(text)))

\* C20: two calls of make_chunk_id with the same file_uid, content_hash,
\* page_no, start and end give the same id when the texts differ only in
\* line endings or in trailing whitespace, and whenever the normalized texts
\* are equal.
C20_ChunkIdNormalized ==
    cid_out.returned =>
        /\ SameButEndings(cid_in.a, cid_in.b) => cid_out.a = cid_out.b
        /\ normalize(cid_in.a) = normalize(cid_in.b) => cid_out.a = cid_out.b

\* the ids of a text with a lone CR inside and a blank at the end and of the
\* same text with LF and nothing at the end
C20_Witness ==
    /\ cid_out.returned
    /\ cid_in.a = <<"\r", "x", " ">>
    /\ cid_in.b = <<"\n", "x">>
    /\ cid_out.a = cid_out.b

(***************************************************************************)
(* Stop flag properties                                                    *)
(***************************************************************************)
\* C18 (as stated, for the metadata service): once the stop flag is set, run
\* finishes the event it is handling and returns, whatever the state of the
\* queues.
C18_StopReturns == stop ~> ~meta_alive


(***************************************************************************)
(* Page splitting: properties                                              *)
(***************************************************************************)
\* the parts joined again with one form feed between two of them
RECURSIVE join_ff(_)
join_ff(parts) ==
    IF Len(parts) = 1 THEN parts[1].text
    ELSE parts[1].text \o <<FF>> \o join_ff(Tail(parts))

\* C21: split_pages on a text with n form feeds returns n+1 pages numbered
\* 1..n+1 in order; each page's text is the substring between delimiters,
\* end - start is its number of scalar values, the first page starts at 0 and
\* each later page starts at the previous page's end + 1.
C21_SplitPages ==
    LET n == Cardinality({i \in 1..Len(sp_in) : sp_in[i] = FF})
    IN  /\ Len(sp_out) = n + 1
        /\ join_ff(sp_out) = sp_in
        /\ sp_out[1].start = 0
        /\ \A k \in 1..Len(sp_out) :
              /\ sp_out[k].page_no = k
              /\ FF \notin Range(sp_out[k].text)
              /\ sp_out[k].end - sp_out[k].start = Len(sp_out[k].text)
              /\ sp_out[k].text = SubSeq(sp_in, sp_out[k].start + 1, sp_out[k].end)
              /\ k > 1 => sp_out[k].start = sp_out[k - 1].end + 1

\* a two-byte letter before a form feed, and a last page after it
C21_Witness ==
    /\ sp_in = <<Wide, "x", FF, Wide>>
    /\ Len(sp_out) = 2
    /\ sp_out[2].start = 3
    /\ sp_out[2].end = 4


(***************************************************************************)
(* Metadata service: redelivery                                            *)
(***************************************************************************)
\* the files rows without updated_ts (and without the rowid)
sans_ts(rows) ==
    {[realpath |-> r.realpath, inode_hint |-> r.inode_hint, status |-> r.status,
      hash |-> r.hash, fast_sig |-> r.fast_sig] : r \in rows}

\* the service is handling the second delivery of a SyncDelta
redoing ==
    /\ redelivered # 0
    /\ meta_delta.seq = redelivered
    /\ meta_pc \in {"added", "modified", "moved", "deleted"}

\* C22 (as stated): a statement of a handler run on a SyncDelta that was
\* handled before leaves every files row as it was, apart from updated_ts; a
\* hash filled in by a completed extraction is kept.
C22_RedeliveryKeepsRows ==
    [][(redoing /\ ops_log' # ops_log) => sans_ts(files') = sans_ts(files)]_vars


(***************************************************************************)
(* Scanner: properties                                                     *)
(***************************************************************************)
\* the bucket the claim gives a file_uid, from the state before and the scan
bucket_of(prev, found, u) ==
    IF prev[u] = NoInfo /\ found[u] = NoInfo THEN "none"
    ELSE IF prev[u] = NoInfo THEN "added"
    ELSE IF found[u] = NoInfo THEN "deleted"
    ELSE IF prev[u].path # found[u].path THEN "moved"
    ELSE IF prev[u].fast_sig # found[u].fast_sig THEN "modified"
    ELSE "none"

\* the buckets of a SyncDelta that hold an entry of the file_uid
buckets_in(d, u) ==
    {b \in {"added", "modified", "moved", "deleted"} : \E e \in d[b] : e.file_uid = u}

\* the delta carries, for each file_uid, just the entry of its bucket
delta_matches(d, prev, found) ==
    \A u \in Uids :
        /\ buckets_in(d, u) = {bucket_of(prev, found, u)} \ {"none"}
        /\ \A e \in d.added \cup d.modified :
              e.file_uid = u => e.path = found[u].path /\ e.fast_sig = found[u].fast_sig
        /\ \A e \in d.moved :
              e.file_uid = u => e.from = prev[u].path /\ e.to = found[u].path
        /\ \A e \in d.deleted : e.file_uid = u => e.path = prev[u].path
        /\ Cardinality({e \in d.added \cup d.modified \cup d.moved \cup d.deleted :
                          e.file_uid = u}) <= 1

ScanAfterQuiet ==
    (watch_pc = "wait" /\ watch_pc' = "scan") =>
        /\ since_arrival > debounce
        /\ burst > 0
        /\ chan = 0

Holds(topic, s, ticket) ==
    ticket \in Range(queue[topic][s]) \cup Range(received[topic][s])

\* the broadcast of t's publish ends: every live subscriber has the event
BroadcastDelivered(t) ==
    (pc[t] = "send" /\ pc'[t] = "log") =>
        \A s \in Range(subs[cur[t].topic]) :
            rx[cur[t].topic][s] = "live" => Holds(cur[t].topic, s, cur[t].ticket)

\* log_event of t's publish ends, with either result: the subscribers and
\* what they hold are as the broadcast left them; when the insert failed the
\* error is returned and no audit row carries the event
AuditFailureKeepsDelivery(t) ==
    (pc[t] = "log" /\ pc'[t] = "idle") =>
        /\ subs' = subs /\ rx' = rx /\ queue' = queue /\ received' = received
        /\ persistErrs' # persistErrs =>
              /\ persistErrs' = persistErrs + 1
              /\ events' = events
              /\ \A r \in events' : r.ticket # cur[t].ticket

\* C30: when the audit insert of a publish fails, the publish returns an
\* error, no audit row exists for the event, the event was delivered to the
\* live subscribers before and is not taken back, and the live subscribers
\* are those of a successful publish.
C30_AuditFailure ==
    [][\A t \in Threads : BroadcastDelivered(t) /\ AuditFailureKeepsDelivery(t)]_vars

\* a subscriber has received an event of which no audit row exists, its
\* publish having returned the error
C30_Witness ==
    /\ persistErrs > 0
    /\ AllIdle
    /\ \E tp \in Topics : \E s \in Subscribers(tp) :
          \E k \in Range(received[tp][s]) : \A r \in events : r.ticket # k


(***************************************************************************)
(* Extraction pool: order of the catalog updates and the publish           *)
(***************************************************************************)
\* C29 (as stated): once ExtractionCompleted{file_uid, content_hash} is
\* published, and so can be observed by a subscriber, the job row of the
\* pair has status done and files.hash equals content_hash.
C29_CatalogBeforePublish ==
    [][\A u \in Uids : \A h \in Contents :
          published'[<<u, h, "extraction_completed">>]
                > published[<<u, h, "extraction_completed">>] =>
              /\ \E j \in extract_jobs' :
                    j.file_uid = u /\ j.content_hash = h /\ j.status = "done"
              /\ \A r \in files' : r.inode_hint = u => r.hash = h]_vars


(***************************************************************************)
(* Reconciler: properties                                                  *)
(***************************************************************************)
\* the mirror directory of a files row
mirror_dir(r) == relativize(r.realpath, roots)

\* an active row of files whose mirror has no mirror_docs row or lacks
\* meta.json or chunks.jsonl
needs_mirror(r) ==
    /\ r.status = "active"
    /\ \/ \A d \in mirror_docs : d.file_uid # r.inode_hint
       \/ mirror_fs[mirror_dir(r)].meta = Absent
       \/ mirror_fs[mirror_dir(r)].chunks = Absent

\* the first pass has visited every row, nothing else has run since the call
first_pass_over == rpc = "missing" /\ r_rows = {}

not_active(u) == \A r \in files : r.inode_hint = u => r.status # "active"

\* reconcile::run returns Ok in this step
rec_returns_ok == rpc = "orphans" /\ rpc' = "idle" /\ rres' = "ok"

source_active(u) == rows_of(u) # {} /\ \A r \in rows_of(u) : r.status = "active"

\* the mirror builder is inside handle_extraction for this file
being_built(u) == mpc # "idle" /\ mjob.uid = u

\* C23 (as stated): a step of the mirror builder, of the reconciler or of
\* retention that works on one file leaves meta.json, chunks.jsonl, the
\* mirror_docs row and the mirror_chunks rows of every other file that has a
\* mirror and whose source is active as they were.
C23_OtherMirrorsKept ==
    [][\A b \in Uids : (source_active(b) /\ doc_exists(b) /\ ~being_built(b)) =>
          \A r \in rows_of(b) :
              snapshot(b, mirror_dir(r))' = snapshot(b, mirror_dir(r))]_vars


(***************************************************************************)
(* Reconciler: repair of a missing mirror                                  *)
(***************************************************************************)
\* the mirror of the file is complete: its row, meta.json and chunks.jsonl
mirror_complete(u) ==
    /\ \E d \in mirror_docs : d.file_uid = u
    /\ \E r \in rows_of(u) : /\ mirror_fs[mirror_dir(r)].meta.exists
                              /\ mirror_fs[mirror_dir(r)].chunks.exists

\* an extraction of the file or a call of handle_extraction ended in an error
repair_failed(u) ==
    builder_ended \/ outcome[u] \in {"persist_err", "extract_err"}

\* the current reconciler run has published ExtractionRequested for the
\* file, which is active and readable, and nothing has failed
repair_requested(u) ==
    /\ r_req[u] > 0
    /\ source_active(u)
    /\ \A r \in rows_of(u) : readable(r.realpath)
    /\ ~repair_failed(u)

\* C28 (as stated, leaving aside extractions and builds that end in an
\* error): once the reconciler has published ExtractionRequested for an
\* active, readable file, a complete mirror of the file eventually exists.
C28_RepairCompletes ==
    \A u \in Uids : repair_requested(u) ~> (mirror_complete(u) \/ repair_failed(u))


(***************************************************************************)
(* Extraction pool: failed jobs                                            *)
(***************************************************************************)
\* the requests for a file that ended: in a terminal event or, when the job
\* row of the content was there, in nothing
processed(u) ==
    total(published, {k \in DOMAIN published : k[1] = u}) + skips[u]

\* the job of a worker that is about to publish ExtractionFailed has a failed
\* row
failed_row_written ==
    \A w \in Workers : wpc[w] = "pubfail" =>
        \E j \in extract_jobs : /\ j.file_uid = wjob[w].uid
                                 /\ j.content_hash = wjob[w].hash
                                 /\ j.status = "failed"

\* C31 (as stated): a job that fails (no files row, or the extractor fails)
\* has a failed job row when ExtractionFailed is published, the worker then
\* waits for the next job, and every request, for whichever file and whatever
\* failed before it, is processed to its end.
C31_FailureDoesNotStopPool ==
    /\ []failed_row_written
    /\ \A w \in Workers : (wpc[w] = "pubfail") ~> (wpc[w] = "idle")
    /\ \A u \in Uids : \A n \in 1..MaxBurst :
          (requested[u] >= n) ~> (processed(u) >= n)


(***************************************************************************)
(* Retention: job rows                                                     *)
(***************************************************************************)
\* a failed job that finished more than jobs_failed_days ago
old_failed(r) ==
    /\ r.status = "failed"
    /\ r.finished_ts # NoTs
    /\ r.finished_ts < now - jobs_failed_days * DaySecs

\* the job rows of a file that are not old failed jobs
not_old_failed(u) == {r \in extract_jobs : r.file_uid = u /\ ~old_failed(r)}

Min(a, b) == IF a <= b THEN a ELSE b

\* C32: a retention run leaves, for every file_uid, the jobs_keep_per_file
\* rows of highest id among its rows that are not old failed jobs (all of
\* them when there are fewer), whatever the rows of the other files are.
C32_JobsKeptPerFile ==
    [][retention_run =>
        \A u \in Uids :
            LET kept == {r \in extract_jobs' : r.file_uid = u}
            IN  /\ Cardinality(kept) <= jobs_keep_per_file
                /\ kept \subseteq not_old_failed(u)
                /\ Cardinality(kept) =
                      Min(jobs_keep_per_file, Cardinality(not_old_failed(u)))
                /\ \A r \in kept : \A o \in not_old_failed(u) \ kept : r.id > o.id]_vars

\* retention has removed the older of the two job rows of f1, a job that was
\* done, and kept the newer one
C32_Witness ==
    /\ completed("f1", "h1") >= 1
    /\ failed("f1", "h1") = 0
    /\ \A r \in extract_jobs : r.file_uid = "f1" => r.content_hash = "h2"
    /\ \E r \in extract_jobs : r.file_uid = "f1" /\ r.id = 2


(***************************************************************************)
(* The chunks of a page                                                    *)
(***************************************************************************)
WriteChunks == \E pages \in WritePages : write_chunks_impl(pages)

\* the loops of write_chunks_impl on the pages of WritePages; the thread runs
NextWrite ==
    \/ WriteChunks
    \/ wc_chunk
    \/ wc_next_page
    \/ wc_done

SpecWrite == Init /\ [][NextWrite]_vars /\ WF_vars(wc_chunk \/ wc_next_page \/ wc_done)

\* the chunks written for the k-th page, in writing order
chunks_of(k) == SelectSeq(wc_out, LAMBDA c : c.page = wc_pages[k].page_no)

\* how far the loops have gone on the k-th page
chars_done(k) ==
    IF k < wc_p THEN Len(wc_pages[k].text) ELSE IF k = wc_p THEN wc_idx ELSE 0

RECURSIVE concat_texts(_)
concat_texts(cs) == IF cs = <<>> THEN <<>> ELSE Head(cs).text \o concat_texts(Tail(cs))

\* the runs of whitespace in a text
whitespace_runs(text) ==
    Cardinality({j \in 1..Len(text) :
                   is_whitespace(text[j]) /\ (j = 1 \/ ~is_whitespace(text[j - 1]))})

\* the chunks of the k-th page follow one another from 0 to where the loops
\* are, each holding the characters of its span
contiguous(k) ==
    LET cs == chunks_of(k)
        text == wc_pages[k].text
    IN  /\ cs = <<>> => chars_done(k) = 0
        /\ cs # <<>> => cs[1].start_char = 0 /\ cs[Len(cs)].end_char = chars_done(k)
        /\ \A i \in 1..(Len(cs) - 1) : cs[i + 1].start_char = cs[i].end_char
        /\ \A i \in 1..Len(cs) :
             /\ cs[i].start_char < cs[i].end_char
             /\ cs[i].end_char <= Len(text)
             /\ cs[i].text = SubSeq(text, cs[i].start_char + 1, cs[i].end_char)
        /\ concat_texts(cs) = SubSeq(text, 1, chars_done(k))

chunks_well_formed ==
    /\ \A k \in 1..Len(wc_pages) : contiguous(k)
    /\ \A i \in 1..Len(wc_out) :
         /\ wc_out[i].order = i - 1
         /\ wc_out[i].text # <<>>
         /\ whitespace_runs(wc_out[i].text) <= TOKENS_PER_CHUNK
         /\ \E k \in 1..Len(wc_pages) : wc_out[i].page = wc_pages[k].page_no
    /\ wc_pc = "done" => \A k \in 1..Len(wc_pages) :
                           concat_texts(chunks_of(k)) = wc_pages[k].text

\* C33: the chunks written for every page cover its characters from 0 to the
\* page length without gap or overlap and concatenate to the page text, each
\* chunk lies in one page, is not empty and holds at most TOKENS_PER_CHUNK
\* runs of whitespace, order counts 0, 1, 2, ... across the file, and the
\* loops end for every page text
C33_ChunksCoverPages ==
    /\ []chunks_well_formed
    /\ (wc_pc = "loop") ~> (wc_pc = "done")

\* two pages of more than TOKENS_PER_CHUNK words were chunked, each into two
\* chunks, the second page after the first
C33_Witness ==
    /\ wc_pc = "done"
    /\ Len(wc_pages) = 2
    /\ Len(chunks_of(1)) = 2
    /\ Len(chunks_of(2)) = 2
    /\ wc_pages[1].text # wc_pages[2].text
    /\ wc_out[Len(wc_out)].order = 3


(***************************************************************************)
(* Start-up of the metadata service                                        *)
(***************************************************************************)
\* main spawns the metadata service and runs the command's cold scans on
\* its own thread, files are created in the source tree
NextMain ==
    \/ FsCreate
    \/ meta_start
    \/ cold_scan
    \/ meta_recv
    \/ meta_added
    \/ meta_publish

SpecMain == InitMain /\ [][NextMain]_vars

\* cold_scan publishes a SyncDelta
delta_published ==
    /\ scans' = scans + 1
    /\ ~delta_empty(emit_delta(fs_state, current_scan, scans + 1))

\* C34: every SyncDelta a cold scan publishes while metadata::run has not
\* returned is received by the metadata service, however the start of its
\* thread interleaves with the scan
C34_DeltaReceived ==
    [][delta_published /\ meta_alive
         => metaQ' = Append(metaQ, emit_delta(fs_state, current_scan, scans + 1))]_vars


(***************************************************************************)
(* Errors of a handler                                                     *)
(***************************************************************************)
\* C35 (as stated): an error returned by a handler of the metadata service
\* does not end its loop: metadata::run never returns with a handler's error
\* (in SpecMeta the service starts subscribed, so "dead" is reached by a
\* handler's error alone)
C35_LoopSurvivesErrors == meta_pc # "dead"


(***************************************************************************)
(* Changed content is extracted again                                      *)
(***************************************************************************)
\* the file was seen by the previous scan and is seen by this one with
\* another fast_sig
sig_changed(u) ==
    /\ fs_state[u] # NoInfo
    /\ current_scan[u] # NoInfo
    /\ fs_state[u].fast_sig # current_scan[u].fast_sig

\* C36 (as stated): every file whose fast_sig differs between two consecutive
\* scans is listed by the published delta under added or modified, the two
\* lists for whose entries the metadata service publishes
\* ExtractionRequested, also when the file was renamed between the scans
C36_ChangedFileRequested ==
    [][delta_published
         => LET d == emit_delta(fs_state, current_scan, scans + 1)
            IN  \A u \in Uids :
                  sig_changed(u) => \E f \in d.added \cup d.modified : f.file_uid = u]_vars


(***************************************************************************)
(* The catalog against the scanner's state                                 *)
(***************************************************************************)
\* (file_uid, realpath) of the files rows that are not deleted
catalog_pairs == {<<r.inode_hint, r.realpath>> : r \in {x \in files : x.status # "deleted"}}

\* (file_uid, path) of the scanner's FsState
state_pairs == {<<u, fs_state[u].path>> : u \in {v \in Uids : fs_state[v] # NoInfo}}

\* a scan was made, every delta published was handled to its end by the
\* metadata service, and no publish call failed
all_handled ==
    /\ scans >= 1
    /\ metaQ = <<>>
    /\ meta_pc = "recv"
    /\ persistErrs = 0

\* C37 (as stated): once the metadata service has handled every delta
\* published so far, the files rows that are not deleted and the scanner's
\* FsState hold the same (file_uid, path) pairs, the first scan after a
\* restart (empty FsState, populated catalog) included
C37_CatalogMatchesFsState == all_handled => catalog_pairs = state_pairs


(***************************************************************************)
(* The pages of an ExtractionCompleted event                               *)
(***************************************************************************)
\* worker w publishes ExtractionCompleted in this step
publishes_completed(w) ==
    /\ wpc[w] = "extract"
    /\ published'[<<wjob[w].uid, wjob[w].hash, "extraction_completed">>]
          > published[<<wjob[w].uid, wjob[w].hash, "extraction_completed">>]

\* C38 (as stated): the pages an ExtractionCompleted event carries are the
\* pages of the content whose hash is its content_hash, also when the file
\* is rewritten while the job runs
C38_PagesMatchHash ==
    [][\A w \in Workers :
          publishes_completed(w)
              => pages_of_file(wjob[w].path) = split_pages(TextOf(wjob[w].hash))]_vars


(***************************************************************************)
(* A job row left running by a killed process                              *)
(***************************************************************************)
\* requests, run_pool and its workers, and a kill of the process during an
\* extraction followed by a restart; the threads run
NextRestart ==
    \/ Request
    \/ dispatcher_run
    \/ \E w \in Workers : worker_run(w)
    \/ kill_restart

SpecRestart ==
    /\ Init /\ [][NextRestart]_vars
    /\ WF_vars(dispatcher_run)
    /\ \A w \in Workers : WF_vars(worker_run(w))

\* the job row of (u, h) is running and no worker of the process holds that
\* job: the row was left by a process that was killed
left_running(u, h) ==
    /\ \E j \in extract_jobs :
          j.file_uid = u /\ j.content_hash = h /\ j.status = "running"
    /\ \A w \in Workers : wpc[w] \in {"extract", "finish"} => wjob[w].uid # u

\* an ExtractionRequested for u is on its way to a worker, and the file
\* still has the content h
requested_again(u, h) ==
    /\ \/ \E i \in 1..Len(reqQ) : reqQ[i] = Ev("extraction_requested", u)
       \/ dpc = u
       \/ \E i \in 1..Len(jobq) : jobq[i] = u
    /\ \E r \in rows_of(u) : readable(r.realpath) /\ hash_file(r.realpath) = h

\* C39 (as stated): after a kill that left the job row of (u, h) running and
\* a restart, a request for u with unchanged content ends in
\* ExtractionCompleted or ExtractionFailed for (u, h)
C39_RunningRowDoesNotBlock ==
    \A u \in Uids : \A h \in Contents :
        (left_running(u, h) /\ requested_again(u, h))
            ~> (completed(u, h) + failed(u, h) >= 1)


(***************************************************************************)
(* Writes under the index lock                                             *)
(***************************************************************************)
MainStart == \E p \in Procs : \E c \in Commands : main_start(p, c)
MainAcquire == \E p \in Procs : main_acquire(p)
MainAbort == \E p \in Procs : main_abort(p)
MainColdScan == \E p \in Procs : main_cold_scan(p)
ServiceWrite == \E p \in Procs : service_write(p)
MainReindex == \E p \in Procs : main_reindex(p)
MainReturn == \E p \in Procs : main_return(p)

\* two processes, each running one command after another
NextCmd ==
    \/ MainStart
    \/ MainAcquire
    \/ MainAbort
    \/ MainColdScan
    \/ ServiceWrite
    \/ MainReindex
    \/ MainReturn

SpecCmd == Init /\ [][NextCmd]_vars

\* process p writes in this step: its cold scan, its reindex, or its
\* metadata service
writes_catalog_or_index(p) ==
    \/ main_pc[p] # "scanned" /\ main_pc'[p] = "scanned"
    \/ main_pc[p] # "indexed" /\ main_pc'[p] = "indexed"
    \/ pending[p] > 0 /\ pending'[p] = 0 /\ main_pc'[p] # "idle"

\* C40 (as stated): every cold scan and reindex of a command, the automatic
\* index creation of query included, and every write of the services the
\* command started happen while the process holds the index lock
C40_WritesUnderLock ==
    [][\A p \in Procs : writes_catalog_or_index(p) => lpc[p] = "held"]_vars

=============================================================================
